---- MODULE Spec2Model ----
(***************************************************************************)
(* Model of the Excel GRN consolidation workflow of src/appnet.py:         *)
(* BigBasketAutomation.process_excel_workflow, _clean_dataframe,           *)
(* _append_to_sheet and _remove_duplicates_from_sheet, together with the   *)
(* remote ledger (a Google Sheets range) they read and write.              *)
(*                                                                         *)
(* Cell values are atoms.  A Python number n is written "#n" (int 1 and    *)
(* float 1.0 are the same atom: they are equal and hash alike in Python    *)
(* and the sheet stores one number for both); every other atom but NaN     *)
(* and None is a Python str.                                               *)
(***************************************************************************)
EXTENDS Integers, Sequences, FiniteSets, TLC

\* ------------------------------------------------------------------ bounds
MaxFiles == 2
MaxRows == 2
MaxLedgerRows == 2
MaxGridRows == 3
MaxLetters == 2
MaxDigits == 2
MaxChars == 5
MaxCells == 3
MaxPassRows == 3

\* ------------------------------------------------------------------ values
NaN == "<NaN>"
None == "<None>"
ItemCode == "Item Code"
PoNumber == "po_number"

Numbers == {"#0", "#1", "#2"}

IsNumber(v) == v \in Numbers

\* pd.isna
IsNA(v) == v \in {NaN, None}

\* Python str(v)
PyStr(v) ==
  CASE v = "#0" -> "0"
    [] v = "#1" -> "1"
    [] v = "#2" -> "2"
    [] v = NaN -> "nan"
    [] v = None -> "None"
    [] OTHER -> v

\* s.replace("'", "")
StripApos(s) ==
  CASE s = "A'" -> "A"
    [] s = "'" -> ""
    [] OTHER -> s

\* s.strip()
Strip(s) ==
  CASE s = " " -> ""
    [] OTHER -> s

\* int(s) / float(s) of the texts of the model; "" when Python raises
\* ValueError.  int("01") is 1.
ParseNumber(s) ==
  CASE s = "0" -> "#0"
    [] s = "1" -> "#1"
    [] s = "01" -> "#1"
    [] s = "2" -> "#2"
    [] OTHER -> ""

\* Python's ordering of the strs that can stand in a sorted column
\* (code point order: digits < upper case < lower case).
StrOrder ==
  << "", " ", "'", "0", "01", "1", "2", "A", "A'", "B", "C", "Column_1", "Column_2",
     "Column_3", "Column_4", "Item Code", "None", "P", "Q", "Qty", "nan",
     "po_number" >>

StrRank(s) == CHOOSE k \in 1..Len(StrOrder) : StrOrder[k] = s

\* f"Column_{i+1}" for the 0-based i = n - 1
ColumnName(n) ==
  CASE n = 1 -> "Column_1"
    [] n = 2 -> "Column_2"
    [] n = 3 -> "Column_3"
    [] OTHER -> "Column_4"

\* ------------------------------------------------------------- sequences
Range(s) == {s[k] : k \in 1..Len(s)}

\* the elements of s at the positions in I, in order
SubSeqAt(s, I) ==
  LET F[k \in 0..Len(s)] ==
        IF k = 0 THEN << >>
        ELSE IF k \in I THEN Append(F[k - 1], s[k]) ELSE F[k - 1]
  IN F[Len(s)]

\* position of the first x in s, 0 when absent
IndexOf(s, x) ==
  IF x \in Range(s) THEN CHOOSE k \in 1..Len(s) : s[k] = x /\ \A j \in 1..(k - 1) : s[j] # x
  ELSE 0

SeqsUpTo(S, n) == UNION {[1..k -> S] : k \in 0..n}

Max(a, b) == IF a >= b THEN a ELSE b

\* ---------------------------------------------------------------- tables
\* A DataFrame: column labels and rows aligned to them.
EmptyDF == [cols |-> << >>, rows |-> << >>]

\* DataFrame.empty
IsEmptyDF(df) == Len(df.cols) = 0 \/ Len(df.rows) = 0

HasKeyCols(df) == ItemCode \in Range(df.cols) /\ PoNumber \in Range(df.cols)

\* zip(df["Item Code"], df["po_number"]) for one row
KeyOf(cols, row) == << row[IndexOf(cols, ItemCode)], row[IndexOf(cols, PoNumber)] >>

\* as DropDupKeys, with keep="last"
DropDupKeys_KeepLast(df) ==
  [cols |-> df.cols,
   rows |-> SubSeqAt(df.rows,
              {k \in 1..Len(df.rows) :
                 \A j \in (k + 1)..Len(df.rows) :
                   KeyOf(df.cols, df.rows[j]) # KeyOf(df.cols, df.rows[k])})]

\* drop_duplicates(subset=["Item Code", "po_number"], keep="first")
DropDupKeys(df) ==
  [cols |-> df.cols,
   rows |-> SubSeqAt(df.rows,
              {k \in 1..Len(df.rows) :
                 \A j \in 1..(k - 1) : KeyOf(df.cols, df.rows[j]) # KeyOf(df.cols, df.rows[k])})]

\* drop_duplicates(): all columns equal, first occurrence kept
DropDupRows(rows) ==
  SubSeqAt(rows, {k \in 1..Len(rows) : \A j \in 1..(k - 1) : rows[j] # rows[k]})

\* select_dtypes(include=['object']): a column pandas could not infer a
\* numeric dtype for (all-number or NaN columns are int64/float64).
IsObjectCol(df, c) == \E r \in 1..Len(df.rows) : ~(IsNumber(df.rows[r][c]) \/ df.rows[r][c] = NaN)

\* as SecondColBlank, text never taken for blank
SecondColBlank_NaOnly(v) == IsNA(v)

\* the blank test on the second column
SecondColBlank(v) == IsNA(v) \/ Strip(PyStr(v)) = "" \/ Strip(PyStr(v)) = "nan"

\* lines 710-713: df[col] = ... assigns into the table object the caller
\* passed, for every column of dtype object
CleanInPlace(df) ==
  IF IsEmptyDF(df) THEN df
  ELSE [cols |-> df.cols,
        rows |-> [r \in 1..Len(df.rows) |->
                    [c \in 1..Len(df.cols) |->
                       IF IsObjectCol(df, c) THEN StripApos(PyStr(df.rows[r][c]))
                       ELSE df.rows[r][c]]]]

\* as CleanDataframe, the rows with a blank second column dropped before the
\* apostrophes are removed
CleanDataframe_FilterFirst(df) ==
  IF IsEmptyDF(df) THEN df
  ELSE
    LET kept == IF Len(df.cols) >= 2
                THEN SelectSeq(df.rows, LAMBDA row : ~SecondColBlank(row[2]))
                ELSE df.rows
    IN [cols |-> df.cols,
        rows |-> DropDupRows(CleanInPlace([cols |-> df.cols, rows |-> kept]).rows)]

\* _clean_dataframe
CleanDataframe(df) ==
  IF IsEmptyDF(df) THEN df
  ELSE
    LET stripped == CleanInPlace(df).rows
        kept == IF Len(df.cols) >= 2
                THEN SelectSeq(stripped, LAMBDA row : ~SecondColBlank(row[2]))
                ELSE stripped
    IN [cols |-> df.cols, rows |-> DropDupRows(kept)]

\* ----------------------------------------------------------- ledger store
\* The ledger is the grid of the sheet: rows of stored cells, "" for an
\* empty cell.  The grid has no trailing empty cells or rows.
RECURSIVE TrimTrailing(_, _)
TrimTrailing(s, blank) ==
  IF Len(s) > 0 /\ s[Len(s)] = blank THEN TrimTrailing(SubSeq(s, 1, Len(s) - 1), blank)
  ELSE s

\* what a RAW write of values leaves in an empty grid
Stored(values) ==
  TrimTrailing([r \in 1..Len(values) |-> TrimTrailing(values[r], "")], << >>)

\* a number cell is returned as its text
SheetRender(v) == IF IsNumber(v) THEN PyStr(v) ELSE v

\* spreadsheets().values().get(...).execute().get('values', [])
SheetGet(grid) ==
  [r \in 1..Len(grid) |-> [c \in 1..Len(grid[r]) |-> SheetRender(grid[r][c])]]

\* spreadsheets().values().append: the rows go below the last row
SheetAppend(grid, values) == Stored(grid \o values)

\* as SheetClear, the call leaving the sheet as it is
SheetClear_Nothing(grid) == grid

\* as SheetClear, clearing the data rows only
SheetClear_KeepsHeader(grid) == IF grid = << >> THEN << >> ELSE << grid[1] >>

\* spreadsheets().values().clear
SheetClear(grid) == << >>

\* spreadsheets().values().update at A1
SheetUpdate(grid, values) ==
  Stored([r \in 1..Max(Len(grid), Len(values)) |->
            IF r <= Len(values)
            THEN values[r] \o (IF r <= Len(grid) /\ Len(grid[r]) > Len(values[r])
                               THEN SubSeq(grid[r], Len(values[r]) + 1, Len(grid[r]))
                               ELSE << >>)
            ELSE grid[r]])

\* ------------------------------------------------------- _append_to_sheet
\* process_value of _append_to_sheet
AppendProcessValue(v) ==
  IF IsNA(v) THEN "" ELSE IF IsNumber(v) THEN v ELSE PyStr(v)

\* the values _append_to_sheet sends
AppendValues(df, append_headers) ==
  (IF append_headers THEN << df.cols >> ELSE << >>)
  \o [r \in 1..Len(df.rows) |-> [c \in 1..Len(df.cols) |-> AppendProcessValue(df.rows[r][c])]]

\* -------------------------------------------- _remove_duplicates_from_sheet
MaxLen(values) ==
  IF values = << >> THEN 0
  ELSE CHOOSE m \in {Len(values[r]) : r \in 1..Len(values)} :
         \A r \in 1..Len(values) : Len(values[r]) <= m

\* row.extend([''] * (max_len - len(row)))
PadRow(row, n) == row \o [k \in 1..(n - Len(row)) |-> ""]

\* process_value of _remove_duplicates_from_sheet
ReconProcessValue(v) ==
  IF v = "" THEN ""
  ELSE IF ParseNumber(v) # "" THEN ParseNumber(v) ELSE v

\* sort_values(by=col): ascending, equal keys keep their order
InsertSorted(s, row, c) ==
  LET n == Cardinality({j \in 1..Len(s) : StrRank(s[j][c]) <= StrRank(row[c])})
  IN SubSeq(s, 1, n) \o << row >> \o SubSeq(s, n + 1, Len(s))

SortRows(rows, c) ==
  LET F[k \in 0..Len(rows)] ==
        IF k = 0 THEN << >> ELSE InsertSorted(F[k - 1], rows[k], c)
  IN F[Len(rows)]

\* the values the pass writes back for the values it read (non-empty)
ReconcileValues(values) ==
  LET n == MaxLen(values)
      padded == [r \in 1..Len(values) |-> PadRow(values[r], n)]
      headers == [c \in 1..n |-> IF padded[1][c] # "" THEN padded[1][c] ELSE ColumnName(c)]
      df == [cols |-> headers, rows |-> Tail(padded)]
      dedup == IF HasKeyCols(df) THEN DropDupKeys(df) ELSE df
      nonblank == SelectSeq(dedup.rows, LAMBDA row : \E c \in 1..n : row[c] # "")
      keepCols == {c \in 1..n : \E r \in 1..Len(nonblank) : nonblank[r][c] # ""}
      cols == SubSeqAt(headers, keepCols)
      rows == [r \in 1..Len(nonblank) |-> SubSeqAt(nonblank[r], keepCols)]
      sorted == IF PoNumber \in Range(cols) THEN SortRows(rows, IndexOf(cols, PoNumber)) ELSE rows
  IN << cols >> \o [r \in 1..Len(sorted) |->
                     [c \in 1..Len(cols) |-> ReconProcessValue(sorted[r][c])]]

\* ------------------------------------------------------------------ inputs
StdCols == << ItemCode, PoNumber, "Qty" >>
SwappedCols == << PoNumber, ItemCode, "Qty" >>
NoKeyCols == << ItemCode, "Qty" >>

\* rows a parsed file of the standard layout may hold
RowPool ==
  { << "A", "P", "#1" >>, << "A", "P", NaN >>, << "B", "#1", "#1" >>,
    << "B", "01", "#1" >>, << "A'", "P", "#1" >>, << "C", NaN, "#1" >> }

\* what a parsing strategy yields for a file: nothing, or a table
ParsedFiles ==
  {EmptyDF}
  \cup {[cols |-> StdCols, rows |-> rs] : rs \in SeqsUpTo(RowPool, MaxRows) \ {<< >>}}
  \cup {[cols |-> SwappedCols, rows |-> << << "A", "P", "#1" >> >>],
        [cols |-> NoKeyCols, rows |-> << << "A", "#1" >> >>],
        [cols |-> StdCols, rows |-> << << NaN, "P", "#1" >> >>]}

\* rows the ledger may hold when a run begins
LedgerPool ==
  { << "A", "P", "#1" >>, << "B", "#1", "#1" >>, << "B", "01", "#1" >>, << "C", "Q" >> }

InitLedgers ==
  {<< >>} \cup {<< StdCols >> \o rs : rs \in SeqsUpTo(LedgerPool, MaxLedgerRows)}

\* ------------------------------------------------------------------- state
VARIABLES
  ledger,             \* the grid of the sheet
  pc,                 \* position in process_excel_workflow
  nfiles,             \* len(excel_files)
  i,                  \* files the loop has gone through
  existing_keys,
  sheet_has_headers,
  is_first_append,
  processed_count,
  recon_values,       \* values of the pass, computed and not yet written
  result,             \* the returned dict, or "none"
  ledger0,            \* history: the grid when the run began
  ledgerPre,          \* history: the grid when the pass was invoked
  fileLog,            \* history: the outcome of each file gone through
  reconLog,           \* history: the outcome of each invocation of the pass
  firstRaw,           \* history: first parsed row per parsed key, in order
  firstClean,         \* history: first cleaned row per key as the sheet returns it
  dupSeen,            \* history: a cleaned row repeated an earlier key
  colsSeen,           \* history: the column layouts of the parsed files
  faulty,             \* history: some call of the run failed
  merge_df,           \* the table given to the dedup-merge step on its own
  merge_keys,         \* the key set given to it
  merge_unique,       \* the rows it retained
  track,              \* whether the four histories of the files are recorded
  unit_pc,            \* position in the function taken on its own
  rd_file,            \* the file given to _read_excel_file_robust
  header_row,         \* config['header_row']
  rd_tried,           \* history: the strategies attempted, with their outcome
  rd_df,              \* the table returned by the reader or the extractor
  cl_df,              \* the table object the caller passes to _clean_dataframe
  cl_df0,             \* history: that table before the call
  cl_out,             \* the table _clean_dataframe returned
  cl_out2,            \* the table it returned when given cl_out
  nz_value,           \* the value given to _clean_cell_value
  nz_out,             \* what it returned
  nz_again,           \* what it returned for the rendering of nz_out
  cell_ref,           \* a cell reference matched by the cell pattern
  cell_data,          \* the dict of decoded coordinates and values
  loop_df,            \* history: df of the iteration gone through last, if recorded
  ext_rows,           \* history: the rows another writer appended to the sheet
  ws_cells,           \* the cell elements of the worksheet markup, in order
  shared_strings      \* the texts of xl/sharedStrings.xml, in order

vars ==
  << ledger, pc, nfiles, i, existing_keys, sheet_has_headers, is_first_append,
     processed_count, recon_values, result, ledger0, ledgerPre, fileLog,
     reconLog, firstRaw, firstClean, dupSeen, colsSeen, faulty, merge_df,
     merge_keys, merge_unique, track, unit_pc, rd_file, header_row, rd_tried,
     rd_df, cl_df, cl_df0, cl_out, cl_out2, nz_value, nz_out, nz_again,
     cell_ref, cell_data, loop_df, ext_rows, ws_cells, shared_strings >>

\* the variables of the dedup-merge step taken on its own
mergeVars == << merge_df, merge_keys, merge_unique >>

\* the variables of the functions taken on their own
unitVars ==
  << unit_pc, rd_file, header_row, rd_tried, rd_df, cl_df, cl_df0, cl_out,
     cl_out2, nz_value, nz_out, nz_again, cell_ref, cell_data, ws_cells,
     shared_strings >>

\* no reader strategy has an outcome
NoOutcome == [raises |-> TRUE, df |-> EmptyDF]

NoFile ==
  [name |-> "", download |-> FALSE, openpyxl |-> NoOutcome, xlrd |-> NoOutcome,
   zip |-> FALSE, cells |-> << >>]

NoScalar == [tag |-> "none", n |-> 0, e |-> 0, s |-> << >>]

NoRef == [letters |-> << >>, digits |-> << >>]

\* none of the functions taken on their own is running
ReaderIdle ==
  /\ rd_file = NoFile
  /\ header_row = 0
  /\ rd_tried = << >>
  /\ rd_df = EmptyDF

CleanerIdle ==
  /\ cl_df = EmptyDF
  /\ cl_df0 = EmptyDF
  /\ cl_out = EmptyDF
  /\ cl_out2 = EmptyDF

NormalizerIdle ==
  /\ nz_value = << >>
  /\ nz_out = NoScalar
  /\ nz_again = NoScalar

DecoderIdle ==
  /\ cell_ref = NoRef
  /\ cell_data = << >>

ResolverIdle ==
  /\ ws_cells = << >>
  /\ shared_strings = << >>

UnitsIdle ==
  /\ unit_pc = "idle"
  /\ ReaderIdle
  /\ CleanerIdle
  /\ NormalizerIdle
  /\ DecoderIdle
  /\ ResolverIdle

NoResult == [success |-> FALSE, processed |-> -1]

Init ==
  /\ ledger \in InitLedgers
  /\ ledger0 = ledger
  /\ pc = "start"
  /\ nfiles = 0
  /\ i = 0
  /\ existing_keys = {}
  /\ sheet_has_headers = FALSE
  /\ is_first_append = TRUE
  /\ processed_count = 0
  /\ recon_values = << >>
  /\ result = NoResult
  /\ ledgerPre = << >>
  /\ fileLog = << >>
  /\ reconLog = << >>
  /\ firstRaw = << >>
  /\ firstClean = << >>
  /\ dupSeen = FALSE
  /\ colsSeen = {}
  /\ faulty = FALSE
  /\ merge_df = EmptyDF
  /\ merge_keys = {}
  /\ merge_unique = EmptyDF
  /\ track = FALSE
  /\ loop_df = EmptyDF
  /\ ext_rows = << >>
  /\ UnitsIdle

\* -------------------------------------------------- process_excel_workflow
\* pd.DataFrame(rows, columns=headers) raises when the longest row and the
\* header differ in length
DataFrameRaises(headers, rows) == rows # << >> /\ MaxLen(rows) # Len(headers)

\* pd.DataFrame(rows, columns=headers): short rows are filled with None
MakeDataFrame(headers, rows) ==
  [cols |-> headers,
   rows |-> [r \in 1..Len(rows) |->
               rows[r] \o [k \in 1..(Len(headers) - Len(rows[r])) |-> None]]]

\* df_existing of the values read from the sheet
ExistingDF(values) ==
  IF values = << >> THEN EmptyDF
  ELSE CleanDataframe(MakeDataFrame(values[1], Tail(values)))

\* set(zip(df["Item Code"], df["po_number"]))
KeySet(df) == {KeyOf(df.cols, df.rows[r]) : r \in 1..Len(df.rows)}

ExistingKeys(df) == IF HasKeyCols(df) THEN KeySet(df) ELSE {}

\* key in existing_keys: a float NaN taken from a column equals no other
KeyIn(key, keys) == key \in keys /\ key[1] # NaN /\ key[2] # NaN

\* _read_excel_file_robust, given what the winning strategy parsed
ReadExcelFileRobust(parsed) ==
  IF IsEmptyDF(parsed) THEN EmptyDF ELSE CleanDataframe(parsed)

\* lines 315 and 321 for every parsed file: the table read, and cleaned again
ReadOf == [parsed \in ParsedFiles |-> ReadExcelFileRobust(parsed)]

CleanedOf == [parsed \in ParsedFiles |-> CleanDataframe(ReadOf[parsed])]

\* as UniqueRows, the mask taken the wrong way round
UniqueRows_KeepsKnown(df, keys) ==
  LET dd == DropDupKeys(df)
  IN [cols |-> dd.cols,
      rows |-> SelectSeq(dd.rows, LAMBDA row : KeyIn(KeyOf(dd.cols, row), keys))]

\* df_unique of the cleaned table
UniqueRows(df, keys) ==
  LET dd == DropDupKeys(df)
  IN [cols |-> dd.cols,
      rows |-> SelectSeq(dd.rows, LAMBDA row : ~KeyIn(KeyOf(dd.cols, row), keys))]

\* the pair of a parsed row
RawKey(cols, row) == KeyOf(cols, row)

\* the pair of a cleaned row as the sheet returns it once appended
ReadBackKey(cols, row) ==
  << SheetRender(AppendProcessValue(KeyOf(cols, row)[1])),
     SheetRender(AppendProcessValue(KeyOf(cols, row)[2])) >>

\* the pair of a row: as parsed, or as the sheet returns it
PairBy(raw, cols, row) ==
  IF raw THEN RawKey(cols, row) ELSE ReadBackKey(cols, row)

\* first extended by the rows of df whose pair is not yet in it; rows with a
\* missing key cell carry no pair
NoteRows(first, df, raw) ==
  IF ~HasKeyCols(df) THEN first
  ELSE LET F[k \in 0..Len(df.rows)] ==
             IF k = 0 THEN first
             ELSE IF \/ IsNA(PairBy(raw, df.cols, df.rows[k])[1])
                     \/ IsNA(PairBy(raw, df.cols, df.rows[k])[2])
                     \/ \E j \in 1..Len(F[k - 1]) :
                          PairBy(raw, df.cols, F[k - 1][j]) =
                            PairBy(raw, df.cols, df.rows[k])
                  THEN F[k - 1]
                  ELSE Append(F[k - 1], df.rows[k])
       IN F[Len(df.rows)]

\* df repeats a pair of first or of itself
RepeatsKey(first, df, raw) ==
  HasKeyCols(df) /\ Len(NoteRows(first, df, raw)) < Len(first) + Len(df.rows)

\* lines 267-307: list the files, read the sheet, build existing_keys
Begin ==
  /\ pc = "start"
  /\ \E n \in 0..MaxFiles, listOk \in BOOLEAN, readOk \in BOOLEAN :
       LET files == IF listOk THEN n ELSE 0
           values == SheetGet(ledger)
           raises == ~readOk \/ (values # << >> /\ DataFrameRaises(values[1], Tail(values)))
           df == ExistingDF(values)
       IN /\ nfiles' = files
          /\ faulty' = (~listOk \/ (files > 0 /\ ~readOk))
          /\ IF files = 0
             THEN /\ result' = [success |-> TRUE, processed |-> 0]
                  /\ pc' = "done"
                  /\ UNCHANGED << existing_keys, sheet_has_headers >>
             ELSE IF raises
             THEN /\ result' = [success |-> FALSE, processed |-> 0]
                  /\ pc' = "done"
                  /\ UNCHANGED << existing_keys, sheet_has_headers >>
             ELSE /\ existing_keys' = ExistingKeys(df)
                  /\ sheet_has_headers' = ~IsEmptyDF(df)
                  /\ pc' = "loop"
                  /\ UNCHANGED result
  /\ UNCHANGED << ledger, i, is_first_append, processed_count, recon_values,
                  ledger0, ledgerPre, fileLog, reconLog, firstRaw, firstClean, dupSeen, colsSeen, track, mergeVars, unitVars, loop_df, ext_rows >>

\* the rows the loop body would append for a parsed file: df_unique, or an
\* empty table when the file is skipped (lines 315-337)
ToAppend(parsed, keys) ==
  IF IsEmptyDF(ReadOf[parsed]) \/ ~HasKeyCols(CleanedOf[parsed]) THEN EmptyDF
  ELSE UniqueRows(CleanedOf[parsed], keys)

\* as ProcessFile, a file that lacks a key column ending the loop
ProcessFile_SkipEndsLoop ==
  /\ pc = "loop"
  /\ i < nfiles
  /\ \E parsed \in ParsedFiles :
       LET read == ReadOf[parsed]
           df == CleanedOf[parsed]
           df_unique == UniqueRows(df, existing_keys)
           append_headers == is_first_append /\ ~sheet_has_headers
           outcome ==
             IF IsEmptyDF(read) THEN "skipped_empty"
             ELSE IF ~HasKeyCols(df) THEN "skipped_columns"
             ELSE IF IsEmptyDF(df_unique) THEN "skipped_known"
             ELSE "appended"
       IN /\ fileLog' = Append(fileLog, outcome)
          /\ firstRaw' = IF track THEN NoteRows(firstRaw, parsed, TRUE) ELSE firstRaw
          /\ firstClean' = IF track THEN NoteRows(firstClean, df, FALSE) ELSE firstClean
          /\ dupSeen' = (dupSeen \/ (track /\ RepeatsKey(firstClean, df, FALSE)))
          /\ colsSeen' = IF track /\ ~IsEmptyDF(parsed) THEN colsSeen \cup {parsed.cols}
                         ELSE colsSeen
          /\ loop_df' = IF ~track THEN loop_df
                        ELSE IF IsEmptyDF(read) THEN read
                        ELSE IF ~HasKeyCols(df) THEN df
                        ELSE DropDupKeys(df)
          /\ IF outcome = "appended"
             THEN /\ ledger' = SheetAppend(ledger, AppendValues(df_unique, append_headers))
                  /\ existing_keys' = existing_keys \cup KeySet(df_unique)
                  /\ processed_count' = processed_count + 1
                  /\ is_first_append' = FALSE
                  /\ sheet_has_headers' = TRUE
             ELSE UNCHANGED << ledger, existing_keys, processed_count, is_first_append,
                               sheet_has_headers >>
          /\ pc' = IF outcome = "skipped_columns" THEN "return" ELSE pc
  /\ i' = i + 1
  /\ UNCHANGED << nfiles, recon_values, result, ledger0, ledgerPre, reconLog,
                  faulty, track, mergeVars, unitVars, ext_rows >>

\* lines 309-362: one iteration of the per-file loop in which nothing raises
ProcessFile ==
  /\ pc = "loop"
  /\ i < nfiles
  /\ \E parsed \in ParsedFiles :
       LET read == ReadOf[parsed]
           df == CleanedOf[parsed]
           df_unique == UniqueRows(df, existing_keys)
           append_headers == is_first_append /\ ~sheet_has_headers
           outcome ==
             IF IsEmptyDF(read) THEN "skipped_empty"
             ELSE IF ~HasKeyCols(df) THEN "skipped_columns"
             ELSE IF IsEmptyDF(df_unique) THEN "skipped_known"
             ELSE "appended"
       IN /\ fileLog' = Append(fileLog, outcome)
          /\ firstRaw' = IF track THEN NoteRows(firstRaw, parsed, TRUE) ELSE firstRaw
          /\ firstClean' = IF track THEN NoteRows(firstClean, df, FALSE) ELSE firstClean
          /\ dupSeen' = (dupSeen \/ (track /\ RepeatsKey(firstClean, df, FALSE)))
          /\ colsSeen' = IF track /\ ~IsEmptyDF(parsed) THEN colsSeen \cup {parsed.cols}
                         ELSE colsSeen
          /\ loop_df' = IF ~track THEN loop_df
                        ELSE IF IsEmptyDF(read) THEN read
                        ELSE IF ~HasKeyCols(df) THEN df
                        ELSE DropDupKeys(df)
          /\ IF outcome = "appended"
             THEN /\ ledger' = SheetAppend(ledger, AppendValues(df_unique, append_headers))
                  /\ existing_keys' = existing_keys \cup KeySet(df_unique)
                  /\ processed_count' = processed_count + 1
                  /\ is_first_append' = FALSE
                  /\ sheet_has_headers' = TRUE
             ELSE UNCHANGED << ledger, existing_keys, processed_count, is_first_append,
                               sheet_has_headers >>
  /\ i' = i + 1
  /\ UNCHANGED << pc, nfiles, recon_values, result, ledger0, ledgerPre, reconLog,
                  faulty, track, mergeVars, unitVars, ext_rows >>

\* lines 552-604 and 317-319: the download or every strategy fails inside
\* _read_excel_file_robust, which returns an empty table; the file is skipped
FileUnreadable ==
  /\ pc = "loop"
  /\ i < nfiles
  /\ fileLog' = Append(fileLog, "skipped_empty")
  /\ loop_df' = IF track THEN EmptyDF ELSE loop_df
  /\ faulty' = TRUE
  /\ i' = i + 1
  /\ UNCHANGED << ledger, pc, nfiles, existing_keys, sheet_has_headers, is_first_append,
                  processed_count, recon_values, result, ledger0, ledgerPre, reconLog,
                  firstRaw, firstClean, dupSeen, colsSeen, track, mergeVars, unitVars, ext_rows >>

\* as FileRaises, without the handler of the iteration: the exception
\* reaches the handler of the workflow (lines 383-387)
FileRaises_Propagates ==
  /\ pc = "loop"
  /\ i < nfiles
  /\ \E how \in {"error", "error_append"}, parsed \in ParsedFiles :
       /\ how = "error_append" => ~IsEmptyDF(ToAppend(parsed, existing_keys))
       /\ fileLog' = Append(fileLog, how)
       /\ loop_df' = IF track /\ how = "error_append" THEN DropDupKeys(CleanedOf[parsed])
                     ELSE loop_df
  /\ faulty' = TRUE
  /\ i' = i + 1
  /\ pc' = "done"
  /\ result' = [success |-> FALSE, processed |-> 0]
  /\ UNCHANGED << ledger, nfiles, existing_keys, sheet_has_headers, is_first_append,
                  processed_count, recon_values, ledger0, ledgerPre, reconLog,
                  firstRaw, firstClean, dupSeen, colsSeen, track, mergeVars, unitVars, ext_rows >>

\* as FileRaises, the keys of the rows folded into existing_keys before the
\* append is attempted
FileRaises_FoldsKeys ==
  /\ pc = "loop"
  /\ i < nfiles
  /\ \E how \in {"error", "error_append"}, parsed \in ParsedFiles :
       /\ how = "error_append" => ~IsEmptyDF(ToAppend(parsed, existing_keys))
       /\ fileLog' = Append(fileLog, how)
       /\ loop_df' = IF track /\ how = "error_append" THEN DropDupKeys(CleanedOf[parsed])
                     ELSE loop_df
       /\ existing_keys' = IF how = "error_append"
                           THEN existing_keys \cup KeySet(ToAppend(parsed, existing_keys))
                           ELSE existing_keys
  /\ faulty' = TRUE
  /\ i' = i + 1
  /\ UNCHANGED << ledger, pc, nfiles, sheet_has_headers, is_first_append,
                  processed_count, recon_values, result, ledger0, ledgerPre, reconLog,
                  firstRaw, firstClean, dupSeen, colsSeen, track, mergeVars, unitVars, ext_rows >>

\* lines 363-365: a step of the loop body raises and the handler of the
\* iteration logs it.  "error" is an exception between the read and the
\* append (lines 321-339); "error_append" is _append_to_sheet re-raising a
\* failure of its get or of its append call (lines 759-778), which takes a
\* file that has rows to append.
FileRaises ==
  /\ pc = "loop"
  /\ i < nfiles
  /\ \E how \in {"error", "error_append"}, parsed \in ParsedFiles :
       /\ how = "error_append" => ~IsEmptyDF(ToAppend(parsed, existing_keys))
       /\ fileLog' = Append(fileLog, how)
       /\ loop_df' = IF track /\ how = "error_append" THEN DropDupKeys(CleanedOf[parsed])
                     ELSE loop_df
  /\ faulty' = TRUE
  /\ i' = i + 1
  /\ UNCHANGED << ledger, pc, nfiles, existing_keys, sheet_has_headers, is_first_append,
                  processed_count, recon_values, result, ledger0, ledgerPre, reconLog,
                  firstRaw, firstClean, dupSeen, colsSeen, track, mergeVars, unitVars, ext_rows >>

\* as RunsPass, the pass invoked after every loop
RunsPass_Always(count) == count >= 0

\* line 368: whether the pass is invoked
RunsPass(count) == count > 0

\* lines 367-374: the loop is over; the pass is invoked if a file was appended
EndLoop ==
  /\ pc = "loop"
  /\ i = nfiles
  /\ IF RunsPass(processed_count)
     THEN /\ pc' = "recon_get"
          /\ ledgerPre' = ledger
          /\ reconLog' = Append(reconLog, "running")
     ELSE /\ pc' = "return"
          /\ UNCHANGED << ledgerPre, reconLog >>
  /\ UNCHANGED << ledger, nfiles, i, existing_keys, sheet_has_headers, is_first_append,
                  processed_count, recon_values, result, ledger0, fileLog, firstRaw,
                  firstClean, dupSeen, colsSeen, faulty, track, mergeVars, unitVars, loop_df, ext_rows >>

ReconEnds(how) == reconLog' = [reconLog EXCEPT ![Len(reconLog)] = how]

\* lines 783-838: the pass reads the sheet and computes the rewritten values
ReconGet ==
  /\ pc = "recon_get"
  /\ \E how \in {"ok", "fail_get", "fail_compute"} :
       LET values == SheetGet(ledger)
       IN IF how # "ok"
          THEN /\ ReconEnds(how)
               /\ faulty' = TRUE
               /\ pc' = "return"
               /\ UNCHANGED recon_values
          ELSE IF values = << >>
          THEN /\ ReconEnds("noop")
               /\ pc' = "return"
               /\ UNCHANGED << recon_values, faulty >>
          ELSE /\ recon_values' = ReconcileValues(values)
               /\ pc' = "recon_clear"
               /\ UNCHANGED << reconLog, faulty >>
  /\ UNCHANGED << ledger, nfiles, i, existing_keys, sheet_has_headers, is_first_append,
                  processed_count, result, ledger0, ledgerPre, fileLog, firstRaw, firstClean, dupSeen, colsSeen,
                  track, mergeVars, unitVars, loop_df, ext_rows >>

\* lines 840-844: the pass clears the sheet
ReconClear ==
  /\ pc = "recon_clear"
  /\ \E ok \in BOOLEAN :
       IF ok
       THEN /\ ledger' = SheetClear(ledger)
            /\ pc' = "recon_update"
            /\ UNCHANGED << reconLog, faulty >>
       ELSE /\ ReconEnds("fail_clear")
            /\ faulty' = TRUE
            /\ pc' = "return"
            /\ UNCHANGED ledger
  /\ UNCHANGED << nfiles, i, existing_keys, sheet_has_headers, is_first_append,
                  processed_count, recon_values, result, ledger0, ledgerPre, fileLog,
                  firstRaw, firstClean, dupSeen, colsSeen, track, mergeVars, unitVars, loop_df, ext_rows >>

\* lines 846-857: the pass writes the values back
ReconUpdate ==
  /\ pc = "recon_update"
  /\ \E ok \in BOOLEAN :
       IF ok
       THEN /\ ledger' = SheetUpdate(ledger, recon_values)
            /\ ReconEnds("ok")
            /\ UNCHANGED faulty
       ELSE /\ ReconEnds("fail_update")
            /\ faulty' = TRUE
            /\ UNCHANGED ledger
  /\ pc' = "return"
  /\ UNCHANGED << nfiles, i, existing_keys, sheet_has_headers, is_first_append,
                  processed_count, recon_values, result, ledger0, ledgerPre, fileLog,
                  firstRaw, firstClean, dupSeen, colsSeen, track, mergeVars, unitVars, loop_df, ext_rows >>

\* lines 376-381: the workflow returns
Return ==
  /\ pc = "return"
  /\ result' = [success |-> TRUE, processed |-> processed_count]
  /\ pc' = "done"
  /\ UNCHANGED << ledger, nfiles, i, existing_keys, sheet_has_headers, is_first_append,
                  processed_count, recon_values, ledger0, ledgerPre, fileLog, reconLog,
                  firstRaw, firstClean, dupSeen, colsSeen, faulty, track, mergeVars, unitVars, loop_df, ext_rows >>

Next ==
  Begin \/ ProcessFile \/ FileUnreadable \/ FileRaises \/ EndLoop \/ ReconGet \/ ReconClear \/ ReconUpdate \/ Return

Spec == Init /\ [][Next]_vars

\* a run on an empty sheet whose files are recorded
InitFresh ==
  /\ ledger = << >>
  /\ ledger0 = ledger
  /\ pc = "start"
  /\ nfiles = 0
  /\ i = 0
  /\ existing_keys = {}
  /\ sheet_has_headers = FALSE
  /\ is_first_append = TRUE
  /\ processed_count = 0
  /\ recon_values = << >>
  /\ result = NoResult
  /\ ledgerPre = << >>
  /\ fileLog = << >>
  /\ reconLog = << >>
  /\ firstRaw = << >>
  /\ firstClean = << >>
  /\ dupSeen = FALSE
  /\ colsSeen = {}
  /\ faulty = FALSE
  /\ merge_df = EmptyDF
  /\ merge_keys = {}
  /\ merge_unique = EmptyDF
  /\ track = TRUE
  /\ loop_df = EmptyDF
  /\ ext_rows = << >>
  /\ UnitsIdle

SpecFresh == InitFresh /\ [][Next]_vars

\* ------------------------------------------- the dedup-merge step on its own
\* the tables the step is given: the cleaned tables that have the key columns
MergeTables ==
  {CleanedOf[parsed] : parsed \in {q \in ParsedFiles : HasKeyCols(CleanedOf[q])}}

\* the keys existing_keys may hold
MergeKeys == UNION {KeySet(df) : df \in MergeTables}

InitMerge ==
  /\ ledger = << >>
  /\ ledger0 = ledger
  /\ pc = "merge"
  /\ nfiles = 0
  /\ i = 0
  /\ existing_keys \in SUBSET MergeKeys
  /\ sheet_has_headers = FALSE
  /\ is_first_append = TRUE
  /\ processed_count = 0
  /\ recon_values = << >>
  /\ result = NoResult
  /\ ledgerPre = << >>
  /\ fileLog = << >>
  /\ reconLog = << >>
  /\ firstRaw = << >>
  /\ firstClean = << >>
  /\ dupSeen = FALSE
  /\ colsSeen = {}
  /\ faulty = FALSE
  /\ merge_df \in MergeTables
  /\ merge_keys = existing_keys
  /\ merge_unique = EmptyDF
  /\ track = FALSE
  /\ loop_df = EmptyDF
  /\ ext_rows = << >>
  /\ UnitsIdle

\* lines 327-333 and 351-353: the rows retained, and their keys folded in
Merge ==
  /\ pc = "merge"
  /\ merge_unique' = UniqueRows(merge_df, existing_keys)
  /\ existing_keys' = existing_keys \cup KeySet(UniqueRows(merge_df, existing_keys))
  /\ pc' = "merged"
  /\ UNCHANGED << ledger, nfiles, i, sheet_has_headers, is_first_append, processed_count,
                  recon_values, result, ledger0, ledgerPre, fileLog, reconLog, firstRaw,
                  firstClean, dupSeen, colsSeen, faulty, merge_df, merge_keys, track,
                  unitVars, loop_df, ext_rows >>

SpecMerge == InitMerge /\ [][Merge]_vars

\* ------------------------------------------------- the pass run twice over
InitTwice ==
  /\ ledger \in InitLedgers
  /\ ledger0 = ledger
  /\ pc = "recon_get"
  /\ nfiles = 0
  /\ i = 0
  /\ existing_keys = {}
  /\ sheet_has_headers = FALSE
  /\ is_first_append = TRUE
  /\ processed_count = 0
  /\ recon_values = << >>
  /\ result = NoResult
  /\ ledgerPre = ledger
  /\ fileLog = << >>
  /\ reconLog = << "running" >>
  /\ firstRaw = << >>
  /\ firstClean = << >>
  /\ dupSeen = FALSE
  /\ colsSeen = {}
  /\ faulty = FALSE
  /\ merge_df = EmptyDF
  /\ merge_keys = {}
  /\ merge_unique = EmptyDF
  /\ track = FALSE
  /\ loop_df = EmptyDF
  /\ ext_rows = << >>
  /\ UnitsIdle

\* _remove_duplicates_from_sheet is invoked again, nothing appended meanwhile
ReconAgain ==
  /\ pc = "return"
  /\ Len(reconLog) = 1
  /\ pc' = "recon_get"
  /\ ledgerPre' = ledger
  /\ reconLog' = Append(reconLog, "running")
  /\ UNCHANGED << ledger, nfiles, i, existing_keys, sheet_has_headers, is_first_append,
                  processed_count, recon_values, result, ledger0, fileLog, firstRaw,
                  firstClean, dupSeen, colsSeen, faulty, track, mergeVars, unitVars, loop_df, ext_rows >>

NextTwice == ReconGet \/ ReconClear \/ ReconUpdate \/ ReconAgain

SpecTwice == InitTwice /\ [][NextTwice]_vars

TypeOK ==
  /\ pc \in {"start", "loop", "recon_get", "recon_clear", "recon_update", "return", "done",
            "merge", "merged"}
  /\ i \in 0..nfiles
  /\ processed_count \in 0..i

\* ------------------------------------------------------ reading the ledger
\* the cell of a stored row, "" beyond its last cell
CellAt(row, c) == IF c <= Len(row) THEN row[c] ELSE ""

LedgerHasKeyCols(grid) ==
  grid # << >> /\ ItemCode \in Range(grid[1]) /\ PoNumber \in Range(grid[1])

\* the (Item Code, po_number) cells of data row r (grid row r + 1), as stored
StoredKey(grid, r) ==
  << CellAt(grid[r + 1], IndexOf(grid[1], ItemCode)),
     CellAt(grid[r + 1], IndexOf(grid[1], PoNumber)) >>

\* the same pair as a read of the sheet returns it
ReadKey(grid, r) ==
  << SheetRender(StoredKey(grid, r)[1]), SheetRender(StoredKey(grid, r)[2]) >>

DataRowCount(grid) == IF grid = << >> THEN 0 ELSE Len(grid) - 1

\* no two data rows hold the same stored pair
DistinctAsStored(grid) ==
  LedgerHasKeyCols(grid) =>
    \A r1, r2 \in 1..DataRowCount(grid) :
      r1 # r2 => StoredKey(grid, r1) # StoredKey(grid, r2)

\* no two data rows read back as the same pair
DistinctAsRead(grid) ==
  LedgerHasKeyCols(grid) =>
    \A r1, r2 \in 1..DataRowCount(grid) :
      r1 # r2 => ReadKey(grid, r1) # ReadKey(grid, r2)

\* ------------------------------------------------------------------ claims
\* C1: whenever process_excel_workflow returns, having started from a ledger
\* whose data rows have pairwise distinct (Item Code, po_number) pairs, the
\* data rows of the ledger still have pairwise distinct pairs, whatever the
\* files and whatever calls failed.  The start is taken distinct in the
\* strong sense (as read back), the end in the weak sense (as stored).
C1_KeysStayDistinct ==
  (pc = "done" /\ DistinctAsRead(ledger0)) => DistinctAsStored(ledger)

DataRows(grid) == IF grid = << >> THEN << >> ELSE Tail(grid)

CountIn(s, x) == Cardinality({k \in 1..Len(s) : s[k] = x})

\* s and t hold the same rows the same number of times
SameRows(s, t) ==
  /\ Len(s) = Len(t)
  /\ \A x \in Range(s) \cup Range(t) : CountIn(s, x) = CountIn(t, x)

\* the rows of rs as _append_to_sheet stores them
AsAppended(rs) ==
  [k \in 1..Len(rs) |->
     TrimTrailing([c \in 1..Len(rs[k]) |-> AppendProcessValue(rs[k][c])], "")]

\* the rows of rs as a successful pass leaves them: text that looks like a
\* number stored as the number, columns blank in every row removed
AsReconciled(rs) ==
  LET app == AsAppended(rs)
      width == MaxLen(app)
      cells == [k \in 1..Len(app) |->
                  [c \in 1..width |-> ReconProcessValue(SheetRender(CellAt(app[k], c)))]]
      keep == {c \in 1..width : \E k \in 1..Len(cells) : cells[k][c] # ""}
  IN [k \in 1..Len(cells) |-> TrimTrailing(SubSeqAt(cells[k], keep), "")]

\* a run on an empty sheet, no call of which failed, over files of one layout
FreshRunDone ==
  pc = "done" /\ track /\ ~faulty /\ ledger0 = << >> /\ Cardinality(colsSeen) <= 1

C3_RetainedKeysAbsent ==
  pc = "merged" =>
    /\ \A r \in 1..Len(merge_unique.rows) :
         KeyOf(merge_unique.cols, merge_unique.rows[r]) \notin merge_keys
    /\ \A r1, r2 \in 1..Len(merge_unique.rows) :
         r1 # r2 => KeyOf(merge_unique.cols, merge_unique.rows[r1])
                    # KeyOf(merge_unique.cols, merge_unique.rows[r2])

\* C4: once the keys of the retained rows are folded into K, the key set is
\* the set of the compound keys of T or of K: none of T is missing, none of
\* K is removed.
C4_FoldedKeysAreUnion ==
  pc = "merged" => existing_keys = merge_keys \cup KeySet(merge_df)

\* T holds a key of K and a key new to K; K holds a key T lacks
C4_Witness ==
  /\ pc = "merged"
  /\ KeySet(merge_df) \cap merge_keys # {}
  /\ KeySet(merge_df) \ merge_keys # {}
  /\ merge_keys \ KeySet(merge_df) # {}
  /\ existing_keys = merge_keys \cup KeySet(merge_df)

\* a key of existing_keys as the sheet returns it once stored
RenderKey(key) ==
  << SheetRender(AppendProcessValue(key[1])), SheetRender(AppendProcessValue(key[2])) >>

\* C5: at every point of the per-file loop existing_keys holds the compound
\* key of every data row of the ledger, the two compared by the text the
\* sheet returns for them.
C5_KeysCoverLedger ==
  (pc = "loop" /\ LedgerHasKeyCols(ledger)) =>
    \A r \in 1..DataRowCount(ledger) :
      \E key \in existing_keys : RenderKey(key) = ReadKey(ledger, r)

\* C6 as claimed: a run that went through its files invoked the pass
\* exactly once.
C6_PassRunsOnce ==
  (pc = "done" /\ result.success /\ nfiles > 0) => Len(reconLog) = 1

\* C6 amended: the pass is invoked at most once, never before the last file
\* has been gone through, and a run that returns after its loop has invoked
\* it exactly when at least one file was appended.
C6_PassRunsOnceIffAppended ==
  /\ Len(reconLog) <= 1
  /\ reconLog # << >> => (pc \notin {"start", "loop"} /\ i = nfiles /\ processed_count > 0)
  /\ (pc = "done" /\ processed_count > 0) => Len(reconLog) = 1

\* the pass ran once, after two files of which one at least was appended
C6_Witness ==
  /\ pc = "done"
  /\ Len(fileLog) = 2
  /\ "appended" \in Range(fileLog)
  /\ Len(reconLog) = 1

\* C7: a second pass right after a successful first one leaves the ledger
\* as the first one left it.
C7_SecondPassChangesNothing ==
  (pc = "return" /\ Len(reconLog) = 2 /\ reconLog[1] = "ok" /\ reconLog[2] \in {"ok", "noop"})
    => ledger = ledgerPre

\* C8: a pass that fails is caught; it leaves the ledger as it found it when
\* it fails before the clear took effect and empty when the update fails,
\* and at no point of a pass does the ledger hold anything else.
C8_FailedPassKeepsOrEmpties ==
  /\ pc \in {"recon_get", "recon_clear"} => ledger = ledgerPre
  /\ pc = "recon_update" => ledger = << >>
  /\ (reconLog # << >> /\ reconLog[Len(reconLog)] \in {"fail_get", "fail_compute", "fail_clear"})
       => ledger = ledgerPre
  /\ (reconLog # << >> /\ reconLog[Len(reconLog)] = "fail_update") => ledger = << >>
  /\ (pc = "done" /\ reconLog # << >>) => result = [success |-> TRUE, processed |-> processed_count]

\* the update failed on a ledger that held rows, and the workflow returned
C8_Witness ==
  /\ pc = "done"
  /\ reconLog = << "fail_update" >>
  /\ ledgerPre # << >>
  /\ ledger = << >>
  /\ result.success

FileErrors == {"error", "error_append"}

\* C9: when a file raises in the loop body, the later files are still gone
\* through and the workflow returns success = True.
C9_FileErrorsStayLocal ==
  /\ (fileLog # << >> /\ fileLog[Len(fileLog)] \in FileErrors) =>
       (pc = IF i < nfiles THEN "loop" ELSE pc) /\ pc # "start"
  /\ (pc = "done" /\ Range(fileLog) \cap FileErrors # {}) =>
       /\ Len(fileLog) = nfiles
       /\ result = [success |-> TRUE, processed |-> processed_count]

\* the first file raised in its append, the second was appended
C9_Witness ==
  /\ pc = "done"
  /\ fileLog = << "error_append", "appended" >>
  /\ result = [success |-> TRUE, processed |-> 1]

\* C10: a failed remote call outside the pass does not abort the batch: the
\* files listed are gone through and the workflow returns success = True.
C10_RemoteFailuresStayLocal ==
  (pc = "done" /\ nfiles > 0 /\ faulty) =>
    (Len(fileLog) = nfiles /\ result.success)

\* ------------------------------------------------ _try_raw_xml_extraction
\* The worksheet is given as the cells the cell pattern matched, row by row:
\* a cell is the value _clean_cell_value stored for it, or Absent when the
\* markup has no cell at that place.
Absent == "<absent>"
Zero == "#0"

\* cell_data: the dict from (row_num, col_num) to the stored value
CellDataOf(cells) ==
  [p \in {q \in (1..Len(cells)) \X (1..MaxLen(cells)) :
            q[2] <= Len(cells[q[1]]) /\ cells[q[1]][q[2]] # Absent}
     |-> cells[p[1]][p[2]]]

\* max_row and max_col, 0 when no cell was stored
MaxRowOf(cd) ==
  IF DOMAIN cd = {} THEN 0
  ELSE CHOOSE m \in {p[1] : p \in DOMAIN cd} : \A p \in DOMAIN cd : p[1] <= m

MaxColOf(cd) ==
  IF DOMAIN cd = {} THEN 0
  ELSE CHOOSE m \in {p[2] : p \in DOMAIN cd} : \A p \in DOMAIN cd : p[2] <= m

\* bool(cell): None, "" and the number 0 are false
Truthy(v) == v \notin {"", None, Zero}

\* row_data of one row of the rectangle
RowData(cd, r) ==
  [c \in 1..MaxColOf(cd) |-> IF << r, c >> \in DOMAIN cd THEN cd[<< r, c >>] ELSE ""]

\* data: the rows of the rectangle that hold a true cell
GridRows(cd) ==
  SelectSeq([r \in 1..MaxRowOf(cd) |-> RowData(cd, r)],
            LAMBDA row : \E c \in 1..Len(row) : Truthy(row[c]))

\* headers taken from a row of data
RawHeaders(row) ==
  [c \in 1..Len(row) |-> IF Truthy(row[c]) THEN PyStr(row[c]) ELSE ColumnName(c)]

\* pd.DataFrame(data, columns=headers) of rows of equal length: in a column
\* of numbers and None only, holding a number, None becomes NaN
RawDataFrame(headers, data) ==
  LET numeric(c) == /\ \A r \in 1..Len(data) : IsNumber(data[r][c]) \/ data[r][c] = None
                    /\ \E r \in 1..Len(data) : IsNumber(data[r][c])
  IN [cols |-> headers,
      rows |-> [r \in 1..Len(data) |->
                  [c \in 1..Len(headers) |->
                     IF numeric(c) /\ data[r][c] = None THEN NaN ELSE data[r][c]]]]

\* as MaterializeGrid, the first row of data taken for the header whatever
\* header_row is
MaterializeGrid_HeaderAlways(cd, hr) ==
  IF DOMAIN cd = {} THEN EmptyDF
  ELSE LET data == GridRows(cd)
           h == Max(hr, 0)
       IN IF Len(data) < h + 2 THEN EmptyDF
          ELSE RawDataFrame(RawHeaders(data[h + 1]), SubSeq(data, h + 2, Len(data)))

\* as MaterializeGrid, one row fewer required
MaterializeGrid_OneRowShort(cd, hr) ==
  IF DOMAIN cd = {} THEN EmptyDF
  ELSE LET data == GridRows(cd)
       IN IF Len(data) < Max(1, hr + 1) THEN EmptyDF
          ELSE IF hr = -1
               THEN RawDataFrame([c \in 1..Len(data[1]) |-> ColumnName(c)], data)
               ELSE RawDataFrame(RawHeaders(data[hr + 1]), SubSeq(data, hr + 2, Len(data)))

\* lines 664-686: the table of the cells stored
MaterializeGrid(cd, hr) ==
  IF DOMAIN cd = {} THEN EmptyDF
  ELSE LET data == GridRows(cd)
       IN IF Len(data) < Max(1, hr + 2) THEN EmptyDF
          ELSE IF hr = -1
               THEN RawDataFrame([c \in 1..Len(data[1]) |-> ColumnName(c)], data)
               ELSE RawDataFrame(RawHeaders(data[hr + 1]), SubSeq(data, hr + 2, Len(data)))

\* _try_raw_xml_extraction: an empty table when the bytes are no archive with
\* a worksheet, or when anything raises
TryRawXmlExtraction(file, hr) ==
  IF ~file.zip THEN EmptyDF ELSE MaterializeGrid(CellDataOf(file.cells), hr)

\* config['header_row']
HeaderRows == {-1, 0, 1}

\* -------------------------------------------------- _read_excel_file_robust
\* file names, and what str.lower() makes of them
FileNames == {"grn.xlsx", "grn.xls", "GRN.XLS"}

Lower(name) == IF name = "GRN.XLS" THEN "grn.xls" ELSE name

\* s.endswith('.xls')
EndsWithXls(s) == s = "grn.xls"

\* what pd.read_excel does with each engine: it raises, or yields a table
OpenpyxlTable == [cols |-> StdCols, rows |-> << << "A'", "P", "#1" >> >>]
XlrdTable == [cols |-> StdCols, rows |-> << << "B", "Q", "#2" >> >>]
BlankKeyTable == [cols |-> StdCols, rows |-> << << "A", NaN, "#1" >> >>]

OpenpyxlOutcomes ==
  {[raises |-> TRUE, df |-> EmptyDF]}
  \cup {[raises |-> FALSE, df |-> t] : t \in {EmptyDF, OpenpyxlTable, BlankKeyTable}}

XlrdOutcomes ==
  {[raises |-> TRUE, df |-> EmptyDF]}
  \cup {[raises |-> FALSE, df |-> t] : t \in {EmptyDF, XlrdTable, BlankKeyTable}}

\* worksheets the raw extraction may be given
ReaderGrids ==
  { << >>,
    << << None, None >> >>,
    << << "A", "B" >> >>,
    << << "A", "B" >>, << "x", "y" >> >>,
    << << "A", "A" >>, << "x", "y" >> >>,
    << << "A", "B" >>, << "x", Absent >> >>,
    << << "A", "B" >>, << "x", "y" >>, << "x", "z" >> >> }

ReaderFiles ==
  [name : FileNames, download : BOOLEAN, openpyxl : OpenpyxlOutcomes,
   xlrd : XlrdOutcomes, zip : BOOLEAN, cells : ReaderGrids]

\* _clean_dataframe raises: df[col] of a label that stands twice is a table,
\* which has no .str
CleanRaises(df) ==
  /\ ~IsEmptyDF(df)
  /\ \E c \in 1..Len(df.cols) :
       /\ IsObjectCol(df, c) \/ (c = 2)
       /\ \E d \in 1..Len(df.cols) : d # c /\ df.cols[d] = df.cols[c]

\* what a strategy came to: "raised", "empty" or "ok"
Outcome(raises, df) ==
  IF raises THEN "raised"
  ELSE IF IsEmptyDF(df) THEN "empty"
  ELSE IF CleanRaises(df) THEN "raised"
  ELSE "ok"

\* as Accept, the table returned as parsed
Accept_Uncleaned(df) == df

\* return self._clean_dataframe(df)
Accept(df) == CleanDataframe(df)

\* as TriesXlrd, whatever the file is called
TriesXlrd_Always(name) == TRUE

\* if filename.lower().endswith('.xls')
TriesXlrd(name) == EndsWithXls(Lower(name))

\* as ReaderCatches, without the handler of lines 602-604
ReaderCatches_Nothing == FALSE

\* the try of line 554 with its handler, lines 602-604
ReaderCatches == TRUE

Tried(strategy, how) == Append(rd_tried, [strategy |-> strategy, how |-> how])

readerFrame ==
  << ledger, pc, nfiles, i, existing_keys, sheet_has_headers, is_first_append,
     processed_count, recon_values, result, ledger0, ledgerPre, fileLog, reconLog,
     firstRaw, firstClean, dupSeen, colsSeen, faulty, track, mergeVars, loop_df, ext_rows,
     ws_cells, shared_strings,
     rd_file, header_row, cl_df, cl_df0, cl_out, cl_out2, nz_value, nz_out,
     nz_again, cell_ref, cell_data >>

\* an exception reaches the outer try of the reader
ReaderFails ==
  IF ReaderCatches THEN unit_pc' = "returned" /\ rd_df' = EmptyDF
  ELSE unit_pc' = "raised" /\ UNCHANGED rd_df

\* lines 555-563: the download
Download ==
  /\ unit_pc = "download"
  /\ IF rd_file.download THEN unit_pc' = "openpyxl" /\ UNCHANGED rd_df
     ELSE ReaderFails
  /\ UNCHANGED << rd_tried, readerFrame >>

\* lines 566-577
TryOpenpyxl ==
  /\ unit_pc = "openpyxl"
  /\ LET how == Outcome(rd_file.openpyxl.raises, rd_file.openpyxl.df)
     IN /\ rd_tried' = Tried("openpyxl", how)
        /\ IF how = "ok"
           THEN unit_pc' = "returned" /\ rd_df' = Accept(rd_file.openpyxl.df)
           ELSE /\ unit_pc' = IF TriesXlrd(rd_file.name) THEN "xlrd" ELSE "raw"
                /\ UNCHANGED rd_df
  /\ UNCHANGED readerFrame

\* lines 580-591
TryXlrd ==
  /\ unit_pc = "xlrd"
  /\ LET how == Outcome(rd_file.xlrd.raises, rd_file.xlrd.df)
     IN /\ rd_tried' = Tried("xlrd", how)
        /\ IF how = "ok"
           THEN unit_pc' = "returned" /\ rd_df' = Accept(rd_file.xlrd.df)
           ELSE unit_pc' = "raw" /\ UNCHANGED rd_df
  /\ UNCHANGED readerFrame

\* lines 594-600
TryRaw ==
  /\ unit_pc = "raw"
  /\ LET df == TryRawXmlExtraction(rd_file, header_row)
         how == Outcome(FALSE, df)
     IN /\ rd_tried' = Tried("raw", how)
        /\ CASE how = "ok" -> unit_pc' = "returned" /\ rd_df' = Accept(df)
             [] how = "empty" -> unit_pc' = "returned" /\ rd_df' = EmptyDF
             [] OTHER -> ReaderFails
  /\ UNCHANGED readerFrame

WorkflowIdle ==
  /\ ledger = << >>
  /\ ledger0 = << >>
  /\ pc = "idle"
  /\ nfiles = 0
  /\ i = 0
  /\ existing_keys = {}
  /\ sheet_has_headers = FALSE
  /\ is_first_append = TRUE
  /\ processed_count = 0
  /\ recon_values = << >>
  /\ result = NoResult
  /\ ledgerPre = << >>
  /\ fileLog = << >>
  /\ reconLog = << >>
  /\ firstRaw = << >>
  /\ firstClean = << >>
  /\ dupSeen = FALSE
  /\ colsSeen = {}
  /\ faulty = FALSE
  /\ merge_df = EmptyDF
  /\ merge_keys = {}
  /\ merge_unique = EmptyDF
  /\ track = FALSE
  /\ loop_df = EmptyDF
  /\ ext_rows = << >>

InitRead ==
  /\ WorkflowIdle
  /\ ResolverIdle
  /\ unit_pc = "download"
  /\ rd_file \in ReaderFiles
  /\ header_row \in HeaderRows
  /\ rd_tried = << >>
  /\ rd_df = EmptyDF
  /\ CleanerIdle
  /\ NormalizerIdle
  /\ DecoderIdle

NextRead == Download \/ TryOpenpyxl \/ TryXlrd \/ TryRaw

SpecRead == InitRead /\ [][NextRead]_vars

\* no strategy attempted came to a table
AllFailed == \A k \in 1..Len(rd_tried) : rd_tried[k].how # "ok"

\* C11: _read_excel_file_robust never raises to its caller, whatever fails
\* (the download, a parsing strategy, the cleaning), and when every strategy
\* attempted failed or raised it returns the empty table.
C11_ReaderNeverRaises ==
  /\ unit_pc # "raised"
  /\ (unit_pc = "returned" /\ AllFailed) => rd_df = EmptyDF

\* every strategy was attempted, one parsed nothing, one raised, and the
\* cleaning of the raw table raised
C11_Witness ==
  /\ unit_pc = "returned"
  /\ Len(rd_tried) = 3
  /\ rd_tried[1].how = "empty"
  /\ rd_tried[2].how = "raised"
  /\ rd_tried[3].how = "raised"
  /\ rd_df = EmptyDF

\* the fixed order of the strategies
StrategyRank(strategy) ==
  CASE strategy = "openpyxl" -> 1
    [] strategy = "xlrd" -> 2
    [] OTHER -> 3

\* the table a strategy parsed from the file
StrategyTable(strategy) ==
  CASE strategy = "openpyxl" -> rd_file.openpyxl.df
    [] strategy = "xlrd" -> rd_file.xlrd.df
    [] OTHER -> TryRawXmlExtraction(rd_file, header_row)

\* C12: the strategies are attempted in the order openpyxl, xlrd, raw
\* extraction; one is attempted only after every earlier one came to an empty
\* table or raised (its cleaning included); xlrd is attempted only for a file
\* name that ends in .xls (the code lowers the name first); and the table
\* returned is the cleaned table of the first strategy that came to a
\* non-empty table.
C12_StrategiesInOrder ==
  /\ \A k \in 1..Len(rd_tried) :
       /\ \A j \in 1..(k - 1) :
            /\ StrategyRank(rd_tried[j].strategy) < StrategyRank(rd_tried[k].strategy)
            /\ rd_tried[j].how \in {"empty", "raised"}
       /\ \A strategy \in {"openpyxl", "xlrd"} :
            StrategyRank(strategy) < StrategyRank(rd_tried[k].strategy) =>
              \/ strategy = "xlrd" /\ ~EndsWithXls(Lower(rd_file.name))
              \/ \E j \in 1..(k - 1) : rd_tried[j].strategy = strategy
       /\ rd_tried[k].strategy = "xlrd" => EndsWithXls(Lower(rd_file.name))
  /\ (unit_pc = "returned" /\ ~AllFailed) =>
       /\ rd_tried[Len(rd_tried)].how = "ok"
       /\ rd_df = CleanDataframe(StrategyTable(rd_tried[Len(rd_tried)].strategy))

\* openpyxl failed on a file called GRN.XLS and the table of xlrd was returned
C12_Witness ==
  /\ unit_pc = "returned"
  /\ rd_file.name = "GRN.XLS"
  /\ Len(rd_tried) = 2
  /\ rd_tried[1].strategy = "openpyxl"
  /\ rd_tried[2] = [strategy |-> "xlrd", how |-> "ok"]
  /\ rd_df = CleanDataframe(XlrdTable)

\* the structured parses failed, the raw extraction was attempted and stored
\* at least one cell, and the reader has returned
RawFallbackDone ==
  /\ unit_pc = "returned"
  /\ rd_tried # << >>
  /\ rd_tried[Len(rd_tried)].strategy = "raw"
  /\ rd_file.zip
  /\ DOMAIN CellDataOf(rd_file.cells) # {}

\* C13 as stated: whenever the structured parses fail and the extractor
\* stores a non-empty grid, the reader returns the cleaned table of the grid,
\* and that table is not empty.
C13_RawGridNeverEmpty ==
  RawFallbackDone =>
    /\ rd_df = CleanDataframe(TryRawXmlExtraction(rd_file, header_row))
    /\ ~IsEmptyDF(rd_df)

\* C13: when the structured parses fail and the table materialized from the
\* grid is not empty and the cleaner does not raise on it, the reader returns
\* that table cleaned, under its columns (with no row left when the cleaner
\* drops them all); for any other non-empty grid it returns the empty table.
C13_RawTableCleaned ==
  RawFallbackDone =>
    LET df == TryRawXmlExtraction(rd_file, header_row)
    IN IF ~IsEmptyDF(df) /\ ~CleanRaises(df)
       THEN rd_df = CleanDataframe(df) /\ rd_df.cols = df.cols /\ rd_df.cols # << >>
       ELSE rd_df = EmptyDF

\* all three strategies were attempted and the rows of the grid were returned
C13_Witness ==
  /\ RawFallbackDone
  /\ Len(rd_tried) = 3
  /\ rd_tried[3].how = "ok"
  /\ ~IsEmptyDF(rd_df)

\* --------------------------------------------- _clean_dataframe on its own
TwoCols == << ItemCode, PoNumber >>
OneCol == << ItemCode >>

\* rows of a table of two columns given to the cleaner
CleanRowPool ==
  { << "A", "P" >>, << "A'", "P" >>, << "A", NaN >>, << "A", "" >>, << "A", " " >>,
    << "A", "nan" >>, << "A", None >>, << "A", "'" >>, << "#1", "#1" >>,
    << "#1", NaN >>, << NaN, "#1" >> }

CleanTables ==
  {EmptyDF}
  \cup {[cols |-> TwoCols, rows |-> rs] : rs \in SeqsUpTo(CleanRowPool, MaxRows)}
  \cup {[cols |-> OneCol, rows |-> rs] :
          rs \in SeqsUpTo({<< "A'" >>, << "" >>, << NaN >>}, MaxRows)}

cleanerFrame ==
  << ledger, pc, nfiles, i, existing_keys, sheet_has_headers, is_first_append,
     processed_count, recon_values, result, ledger0, ledgerPre, fileLog, reconLog,
     firstRaw, firstClean, dupSeen, colsSeen, faulty, track, mergeVars, loop_df, ext_rows,
     ws_cells, shared_strings,
     rd_file, header_row, rd_tried, rd_df, cl_df0, nz_value, nz_out, nz_again,
     cell_ref, cell_data >>

\* the caller passes cl_df; lines 705-730
Clean ==
  /\ unit_pc = "clean"
  /\ cl_out' = CleanDataframe(cl_df)
  /\ cl_df' = CleanInPlace(cl_df)
  /\ unit_pc' = "cleaned"
  /\ UNCHANGED << cl_out2, cleanerFrame >>

\* the caller passes the table it was given back
CleanAgain ==
  /\ unit_pc = "cleaned"
  /\ cl_out2' = CleanDataframe(cl_out)
  /\ cl_out' = CleanInPlace(cl_out)
  /\ unit_pc' = "cleaned_twice"
  /\ UNCHANGED << cl_df, cleanerFrame >>

InitClean ==
  /\ WorkflowIdle
  /\ ResolverIdle
  /\ unit_pc = "clean"
  /\ ReaderIdle
  /\ cl_df \in CleanTables
  /\ cl_df0 = cl_df
  /\ cl_out = EmptyDF
  /\ cl_out2 = EmptyDF
  /\ NormalizerIdle
  /\ DecoderIdle

NextClean == Clean \/ CleanAgain

SpecClean == InitClean /\ [][NextClean]_vars

\* a cell that is missing, empty, whitespace-only or the text "nan"
BlankCell(v) == v \in {NaN, None, "", " ", "nan"}

C15_CleanIsIdempotent ==
  unit_pc = "cleaned_twice" => (cl_out2.cols = cl_out.cols /\ cl_out2.rows = cl_out.rows)

\* a table the first cleaning changed was cleaned a second time
C15_Witness ==
  /\ unit_pc = "cleaned_twice"
  /\ Len(cl_df0.rows) = 2
  /\ Len(cl_out2.rows) = 1
  /\ cl_out2.rows[1] # cl_df0.rows[1]
  /\ cl_out2.rows[1] # cl_df0.rows[2]

\* C16: _clean_dataframe never mutates the table passed by its caller: every
\* cell of that table has after the call the value it had before.
C16_CallerTableUntouched ==
  unit_pc # "clean" => cl_df = cl_df0

\* ------------------------------------- _try_raw_xml_extraction on its own
\* what a row of the worksheet may hold, cell by cell
GridRowPool ==
  { << "A", "B" >>, << "x", "y" >>, << "x", Absent >>, << >>, << None, None >>,
    << Zero >>, << "#1", "y", "#2" >>, << None, "y", "#1" >> }

RawFiles ==
  {[name |-> "grn.xlsx", download |-> TRUE, openpyxl |-> NoOutcome,
    xlrd |-> NoOutcome, zip |-> z, cells |-> g] :
     z \in BOOLEAN, g \in SeqsUpTo(GridRowPool, MaxGridRows)}

\* lines 606-689
Extract ==
  /\ unit_pc = "extract"
  /\ rd_df' = TryRawXmlExtraction(rd_file, header_row)
  /\ unit_pc' = "extracted"
  /\ UNCHANGED << rd_tried, readerFrame >>

InitRaw ==
  /\ WorkflowIdle
  /\ ResolverIdle
  /\ unit_pc = "extract"
  /\ rd_file \in RawFiles
  /\ header_row \in HeaderRows
  /\ rd_tried = << >>
  /\ rd_df = EmptyDF
  /\ CleanerIdle
  /\ NormalizerIdle
  /\ DecoderIdle

SpecRaw == InitRaw /\ [][Extract]_vars

\* the table holds the rows of data, a None of a numeric column read as NaN
HoldsRows(df, data) ==
  /\ Len(df.rows) = Len(data)
  /\ \A r \in 1..Len(data) :
       /\ Len(df.rows[r]) = Len(data[r])
       /\ \A c \in 1..Len(data[r]) :
            df.rows[r][c] = data[r][c] \/ (data[r][c] = None /\ df.rows[r][c] = NaN)

\* Column_1 .. Column_n
ColumnNames(n) == [c \in 1..n |-> ColumnName(c)]

\* C17 as stated: with header_row = -1 the table of any grid has the columns
\* Column_1 .. Column_N, N the width of the rectangle, and all retained rows
\* as data.
C17_NoHeaderAlwaysNamed ==
  (unit_pc = "extracted" /\ rd_file.zip /\ header_row = -1
     /\ DOMAIN CellDataOf(rd_file.cells) # {}) =>
    /\ rd_df.cols = ColumnNames(MaxColOf(CellDataOf(rd_file.cells)))
    /\ HoldsRows(rd_df, GridRows(CellDataOf(rd_file.cells)))

\* C17: with header_row = -1 and at least one row of the rectangle retained,
\* the table has the columns Column_1 .. Column_N, N the width of the
\* rectangle, and its data rows are all retained rows, none taken for a
\* header; with no row retained the table is the empty table.
C17_NoHeaderAllRowsData ==
  (unit_pc = "extracted" /\ rd_file.zip /\ header_row = -1) =>
    LET cd == CellDataOf(rd_file.cells)
    IN IF GridRows(cd) # << >>
       THEN /\ rd_df.cols = ColumnNames(MaxColOf(cd))
            /\ HoldsRows(rd_df, GridRows(cd))
       ELSE rd_df = EmptyDF

\* a rectangle of 3 columns by 3 rows became 3 data rows under Column_1..3
C17_Witness ==
  /\ unit_pc = "extracted"
  /\ header_row = -1
  /\ rd_df.cols = << "Column_1", "Column_2", "Column_3" >>
  /\ Len(rd_df.rows) = 3
  /\ rd_df.rows[1] = << "A", "B", "" >>

\* ------------------------------------------------- cell reference decoding
\* A reference the cell pattern matched, r="([A-Z]+\d+)": its letters and its
\* digits, one character each.
Alphabet ==
  << "A", "B", "C", "D", "E", "F", "G", "H", "I", "J", "K", "L", "M", "N", "O",
     "P", "Q", "R", "S", "T", "U", "V", "W", "X", "Y", "Z" >>

DigitChars == << "0", "1", "2", "3", "4", "5", "6", "7", "8", "9" >>

\* ord(c) - ord('A') + 1
LetterVal(c) == CHOOSE k \in 1..Len(Alphabet) : Alphabet[k] = c

\* the value of one digit
DigitVal(c) == (CHOOSE k \in 1..Len(DigitChars) : DigitChars[k] = c) - 1

\* lines 647-649: col_num
ColNum(letters) ==
  LET F[k \in 0..Len(letters)] ==
        IF k = 0 THEN 0 ELSE F[k - 1] * 26 + LetterVal(letters[k])
  IN F[Len(letters)]

\* line 646: int() of the digits
RowNum(digits) ==
  LET F[k \in 0..Len(digits)] ==
        IF k = 0 THEN 0 ELSE F[k - 1] * 10 + DigitVal(digits[k])
  IN F[Len(digits)]

LetterPool == {"A", "B", "Z"}
DigitPool == {"0", "1", "9"}

CellRefs ==
  [letters : SeqsUpTo(LetterPool, MaxLetters) \ {<< >>},
   digits : SeqsUpTo(DigitPool, MaxDigits) \ {<< >>}]

decoderFrame ==
  << ledger, pc, nfiles, i, existing_keys, sheet_has_headers, is_first_append,
     processed_count, recon_values, result, ledger0, ledgerPre, fileLog, reconLog,
     firstRaw, firstClean, dupSeen, colsSeen, faulty, track, mergeVars, loop_df, ext_rows,
     ws_cells, shared_strings,
     rd_file, header_row, rd_tried, rd_df, cl_df, cl_df0, cl_out, cl_out2,
     nz_value, nz_out, nz_again, cell_ref >>

\* lines 644-660 for one cell: cell_data[(row_num, col_num)] = value
Decode ==
  /\ unit_pc = "decode"
  /\ cell_data' = [p \in {<< RowNum(cell_ref.digits), ColNum(cell_ref.letters) >>} |-> "x"]
  /\ unit_pc' = "decoded"
  /\ UNCHANGED decoderFrame

InitDecode ==
  /\ WorkflowIdle
  /\ ResolverIdle
  /\ unit_pc = "decode"
  /\ ReaderIdle
  /\ CleanerIdle
  /\ NormalizerIdle
  /\ cell_ref \in CellRefs
  /\ cell_data = << >>

SpecDecode == InitDecode /\ [][Decode]_vars

\* the standard column letters of n >= 1 (1 -> A, 26 -> Z, 27 -> AA)
RECURSIVE ColumnLetters(_)
ColumnLetters(n) ==
  IF n <= 0 THEN << >>
  ELSE Append(ColumnLetters((n - 1) \div 26), Alphabet[((n - 1) % 26) + 1])

\* the decimal digits of n >= 0
RECURSIVE DecimalDigits(_)
DecimalDigits(n) ==
  IF n < 10 THEN << DigitChars[n + 1] >>
  ELSE Append(DecimalDigits(n \div 10), DigitChars[(n % 10) + 1])

\* digits without their leading zeros, one digit at least
RECURSIVE NoLeadingZeros(_)
NoLeadingZeros(digits) ==
  IF Len(digits) > 1 /\ digits[1] = "0" THEN NoLeadingZeros(Tail(digits)) ELSE digits

\* C18: a reference of letters A-Z followed by digits is decoded to (column,
\* row), the column the bijective base-26 value of the letters (A1 -> (1,1),
\* Z1 -> (26,1), AA1 -> (27,1), AB10 -> (28,10)), the exact inverse of the
\* standard column letters, the row the decimal value of the digits, and
\* every coordinate stored has row >= 1 and column >= 1.
C18_DecodedCoordinates ==
  unit_pc = "decoded" =>
    \A p \in DOMAIN cell_data :
      /\ ColumnLetters(p[2]) = cell_ref.letters
      /\ DecimalDigits(p[1]) = NoLeadingZeros(cell_ref.digits)
      /\ cell_ref = [letters |-> << "A" >>, digits |-> << "1" >>] => p = << 1, 1 >>
      /\ cell_ref = [letters |-> << "Z" >>, digits |-> << "1" >>] => p = << 1, 26 >>
      /\ cell_ref = [letters |-> << "A", "A" >>, digits |-> << "1" >>] => p = << 1, 27 >>
      /\ cell_ref = [letters |-> << "A", "B" >>, digits |-> << "1", "0" >>] => p = << 10, 28 >>
      /\ p[1] >= 1
      /\ p[2] >= 1

\* -------------------------------------------------------- _clean_cell_value
\* The text given to _clean_cell_value is a sequence of characters; the
\* value it returns is a scalar: empty (None), an int n, a float n * 10^e
\* (s = << "-" >> for -0.0), an infinity of sign n, or the str s.
NullValue == << None >>

Scalar(tag, n, e, s) == [tag |-> tag, n |-> n, e |-> e, s |-> s]

EmptyScalar == Scalar("empty", 0, 0, << >>)

Whitespace == {" "}

RECURSIVE LStripChars(_)
LStripChars(s) ==
  IF s # << >> /\ s[1] \in Whitespace THEN LStripChars(Tail(s)) ELSE s

\* str.strip()
StripChars(s) == TrimTrailing(LStripChars(s), " ")

\* str.replace("'", "")
RemoveApostrophes(s) == SelectSeq(s, LAMBDA c : c # "'")

\* '.' in value or 'e' in value.lower()
HasDotOrE(s) == \E k \in 1..Len(s) : s[k] \in {".", "e", "E"}

AllDigits(s) == \A k \in 1..Len(s) : s[k] \in Range(DigitChars)

\* position of the first character of s that is in S, 0 when there is none
FirstIndex(s, S) ==
  IF \E k \in 1..Len(s) : s[k] \in S
  THEN CHOOSE k \in 1..Len(s) : s[k] \in S /\ \A j \in 1..(k - 1) : s[j] \notin S
  ELSE 0

Signed(s) == s # << >> /\ s[1] \in {"+", "-"}

Unsigned(s) == IF Signed(s) THEN Tail(s) ELSE s

SignOf(s) == IF s # << >> /\ s[1] = "-" THEN -1 ELSE 1

\* int(s) does not raise: optional blanks, optional sign, digits
IntParses(s) ==
  LET body == Unsigned(StripChars(s))
  IN body # << >> /\ AllDigits(body)

IntValue(s) == SignOf(StripChars(s)) * RowNum(Unsigned(StripChars(s)))

\* the parts of a decimal float literal
FloatParts(s) ==
  LET u == Unsigned(StripChars(s))
      ePos == FirstIndex(u, {"e", "E"})
      mant == IF ePos = 0 THEN u ELSE SubSeq(u, 1, ePos - 1)
      expo == IF ePos = 0 THEN << >> ELSE SubSeq(u, ePos + 1, Len(u))
      dot == FirstIndex(mant, {"."})
      ip == IF dot = 0 THEN mant ELSE SubSeq(mant, 1, dot - 1)
      fp == IF dot = 0 THEN << >> ELSE SubSeq(mant, dot + 1, Len(mant))
      ok == /\ AllDigits(ip)
            /\ AllDigits(fp)
            /\ Len(ip) + Len(fp) >= 1
            /\ ePos = 0 \/ (Unsigned(expo) # << >> /\ AllDigits(Unsigned(expo)))
  IN [ok |-> ok,
      sign |-> SignOf(StripChars(s)),
      digits |-> ip \o fp,
      exp |-> IF ok THEN SignOf(expo) * RowNum(Unsigned(expo)) - Len(fp) ELSE 0]

\* float(s) does not raise
FloatParses(s) == FloatParts(s).ok

RECURSIVE StripLeadingZeros(_)
StripLeadingZeros(ds) ==
  IF ds # << >> /\ ds[1] = "0" THEN StripLeadingZeros(Tail(ds)) ELSE ds

\* float(s): the double nearest to the literal.  A literal of few digits is
\* kept exactly by the round trip through repr; beyond 1.797e308 the double
\* is an infinity, below 5e-324 it is zero.
FloatValue(s) ==
  LET parts == FloatParts(s)
      sig == StripLeadingZeros(parts.digits)
      m == TrimTrailing(sig, "0")
      e10 == parts.exp + (Len(sig) - Len(m))
      mag == e10 + Len(m) - 1
  IN IF m = << >> THEN Scalar("float", 0, 0, IF parts.sign = -1 THEN << "-" >> ELSE << >>)
     ELSE IF mag > 308 \/ (mag = 308 /\ m[1] # "1") THEN Scalar("inf", parts.sign, 0, << >>)
     ELSE IF mag < -324 THEN Scalar("float", 0, 0, IF parts.sign = -1 THEN << "-" >> ELSE << >>)
     ELSE Scalar("float", parts.sign * RowNum(m), e10, << >>)

\* _clean_cell_value
CleanCellValue(value) ==
  IF value = NullValue \/ value = << >> THEN EmptyScalar
  ELSE LET v == RemoveApostrophes(StripChars(value))
       IN IF v = << >> THEN EmptyScalar
          ELSE IF HasDotOrE(v)
               THEN IF FloatParses(v) THEN FloatValue(v) ELSE Scalar("str", 0, 0, v)
               ELSE IF IntParses(v) THEN Scalar("int", IntValue(v), 0, << >>)
                    ELSE Scalar("str", 0, 0, v)

Zeros(k) == [j \in 1..k |-> "0"]

Abs(n) == IF n < 0 THEN -n ELSE n

\* str(v) of a scalar, the empty scalar rendered as the empty text.  repr of
\* a float: positional for a decimal exponent in -4..15, else with an
\* exponent of two digits at least.
RenderScalar(v) ==
  CASE v.tag = "empty" -> << >>
    [] v.tag = "str" -> v.s
    [] v.tag = "int" -> (IF v.n < 0 THEN << "-" >> ELSE << >>) \o DecimalDigits(Abs(v.n))
    [] v.tag = "inf" -> (IF v.n < 0 THEN << "-" >> ELSE << >>) \o << "i", "n", "f" >>
    [] OTHER ->
         IF v.n = 0 THEN v.s \o << "0", ".", "0" >>
         ELSE LET ds == DecimalDigits(Abs(v.n))
                  d == Len(ds)
                  mag == v.e + d - 1
                  sign == IF v.n < 0 THEN << "-" >> ELSE << >>
              IN IF mag >= -4 /\ mag < 16
                 THEN IF v.e >= 0 THEN sign \o ds \o Zeros(v.e) \o << ".", "0" >>
                      ELSE IF mag >= 0
                           THEN sign \o SubSeq(ds, 1, mag + 1) \o << "." >>
                                  \o SubSeq(ds, mag + 2, d)
                           ELSE sign \o << "0", "." >> \o Zeros(-mag - 1) \o ds
                 ELSE sign \o << ds[1] >>
                        \o (IF d > 1 THEN << "." >> \o SubSeq(ds, 2, d) ELSE << >>)
                        \o << "e", IF mag < 0 THEN "-" ELSE "+" >>
                        \o (IF Abs(mag) < 10 THEN << "0" >> ELSE << >>)
                        \o DecimalDigits(Abs(mag))

\* the characters a text given to the normalizer is made of
CharPool == {" ", "'", "7", "0", ".", "e", "-", "x"}

CellTexts == {NullValue} \cup SeqsUpTo(CharPool, MaxChars)

normalizerFrame ==
  << ledger, pc, nfiles, i, existing_keys, sheet_has_headers, is_first_append,
     processed_count, recon_values, result, ledger0, ledgerPre, fileLog, reconLog,
     firstRaw, firstClean, dupSeen, colsSeen, faulty, track, mergeVars, loop_df, ext_rows,
     ws_cells, shared_strings,
     rd_file, header_row, rd_tried, rd_df, cl_df, cl_df0, cl_out, cl_out2,
     nz_value, cell_ref, cell_data >>

\* lines 691-703
Normalize ==
  /\ unit_pc = "normalize"
  /\ nz_out' = CleanCellValue(nz_value)
  /\ unit_pc' = "normalized"
  /\ UNCHANGED << nz_again, normalizerFrame >>

\* the value returned is rendered and given to _clean_cell_value again
NormalizeAgain ==
  /\ unit_pc = "normalized"
  /\ nz_again' = CleanCellValue(RenderScalar(nz_out))
  /\ unit_pc' = "normalized_twice"
  /\ UNCHANGED << nz_out, normalizerFrame >>

InitNormalize ==
  /\ WorkflowIdle
  /\ ResolverIdle
  /\ unit_pc = "normalize"
  /\ ReaderIdle
  /\ CleanerIdle
  /\ nz_value \in CellTexts
  /\ nz_out = NoScalar
  /\ nz_again = NoScalar
  /\ DecoderIdle

NextNormalize == Normalize \/ NormalizeAgain

SpecNormalize == InitNormalize /\ [][NextNormalize]_vars

\* the text with its apostrophes and its surrounding whitespace stripped
StrippedText(value) == StripChars(RemoveApostrophes(value))

\* C19: null, empty or whitespace-only input gives the empty scalar;
\* otherwise, of the text with apostrophes and surrounding whitespace
\* stripped, an integer literal (no '.', no exponent marker) gives the
\* integer, a float literal holding '.' or 'e'/'E' gives the float, and
\* anything else gives the stripped text as a string (a text of apostrophes
\* and whitespace only may give the empty scalar); nothing is raised.
C19_CellValueClassified ==
  unit_pc # "normalize" =>
    IF nz_value = NullValue \/ StripChars(nz_value) = << >> THEN nz_out = EmptyScalar
    ELSE LET t == StrippedText(nz_value)
         IN IF t = << >> THEN nz_out \in {EmptyScalar, Scalar("str", 0, 0, << >>)}
            ELSE IF ~HasDotOrE(t) /\ IntParses(t)
                 THEN nz_out = Scalar("int", IntValue(t), 0, << >>)
            ELSE IF HasDotOrE(t) /\ FloatParses(t) THEN nz_out = FloatValue(t)
            ELSE nz_out = Scalar("str", 0, 0, t)

\* C20: normalizing the rendering of a normalized value gives that value
\* again, the empty scalar rendered as the empty text.
C20_NormalizeIsIdempotent ==
  unit_pc = "normalized_twice" => nz_again = nz_out

\* ------------------------------------------------ the per-file loop, by step
\* the step went through a file without raising
FileStep == Len(fileLog') = Len(fileLog) + 1 /\ fileLog'[Len(fileLog')] \notin FileErrors

\* C21: when the parsed and cleaned table of a file lacks the Item Code
\* column or the po_number column, the file is skipped: nothing is appended
\* to the ledger, existing_keys and processed_count are unchanged, and the
\* loop goes on to the next file.
C21_MissingColumnsSkip ==
  [][(track /\ FileStep /\ ~IsEmptyDF(loop_df') /\ ~HasKeyCols(loop_df')) =>
       /\ fileLog'[Len(fileLog')] = "skipped_columns"
       /\ ledger' = ledger
       /\ existing_keys' = existing_keys
       /\ processed_count' = processed_count
       /\ pc' = "loop"
       /\ i' = i + 1]_vars

\* a file without po_number was skipped and the file after it was appended
C21_Witness ==
  /\ pc = "done"
  /\ track
  /\ fileLog = << "skipped_columns", "appended" >>
  /\ processed_count = 1
  /\ DataRowCount(ledger) >= 1

\* ------------------------------------- the pass beside another writer
\* rows another writer of the sheet may append
ExternalPool == { << "X", "Y", "#1" >>, << "A", "P", "#2" >> }

\* between the get of lines 783-787 and the clear of lines 841-844 another
\* writer appends a row below the last row of the sheet
ExternalAppend ==
  /\ pc = "recon_clear"
  /\ ext_rows = << >>
  /\ \E row \in ExternalPool :
       /\ ledger' = SheetAppend(ledger, << row >>)
       /\ ext_rows' = << row >>
  /\ UNCHANGED << pc, nfiles, i, existing_keys, sheet_has_headers, is_first_append,
                  processed_count, recon_values, result, ledger0, ledgerPre, fileLog,
                  reconLog, firstRaw, firstClean, dupSeen, colsSeen, faulty, track,
                  mergeVars, unitVars, loop_df >>

NextRace == ReconGet \/ ExternalAppend \/ ReconClear \/ ReconUpdate

SpecRace == InitTwice /\ [][NextRace]_vars

\* the pairs the data rows of a grid read back as
ReadKeys(grid) ==
  IF LedgerHasKeyCols(grid) THEN {ReadKey(grid, r) : r \in 1..DataRowCount(grid)} ELSE {}

\* C22: a row another writer appends after the pass has read the ledger and
\* before it clears it is absent once the pass completes: the ledger is what
\* the pass made of the rows it read, and holds no pair that only the
\* appended row carried.
C22_ExternalRowLost ==
  (pc = "return" /\ reconLog = << "ok" >> /\ ext_rows # << >>) =>
    /\ ledger = SheetUpdate(<< >>, ReconcileValues(SheetGet(ledgerPre)))
    /\ \A k \in 1..Len(ext_rows) :
         << ext_rows[k][1], ext_rows[k][2] >> \notin ReadKeys(ledgerPre)
           => << ext_rows[k][1], ext_rows[k][2] >> \notin ReadKeys(ledger)

\* the row (X, Y, 1) was appended to a ledger of two data rows between the
\* read and the clear, and the pass completed
C22_Witness ==
  /\ pc = "return"
  /\ reconLog = << "ok" >>
  /\ ext_rows = << << "X", "Y", "#1" >> >>
  /\ DataRowCount(ledgerPre) = 2
  /\ DataRowCount(ledger) >= 1

\* ------------------------------------------- the header row of the raw grid
\* C23: with header_row = h >= 0 the table of the grid is empty unless at
\* least h + 2 rows are retained; otherwise retained row h (counted from 0)
\* supplies the column names, a cell without a value named Column_c, the
\* retained rows before it are discarded, and exactly the retained rows
\* after it are the data rows.
C23_HeaderRowSelected ==
  (unit_pc = "extracted" /\ rd_file.zip /\ header_row >= 0) =>
    LET data == GridRows(CellDataOf(rd_file.cells))
        h == header_row
    IN IF Len(data) < h + 2 THEN rd_df = EmptyDF
       ELSE /\ Len(rd_df.cols) = Len(data[h + 1])
            /\ \A c \in 1..Len(rd_df.cols) :
                 rd_df.cols[c] = IF data[h + 1][c] \in {"", None, Zero} THEN ColumnName(c)
                                 ELSE PyStr(data[h + 1][c])
            /\ HoldsRows(rd_df, SubSeq(data, h + 2, Len(data)))

\* of three retained rows the second named the columns and the third is the
\* one data row
C23_Witness ==
  /\ unit_pc = "extracted"
  /\ header_row = 1
  /\ Len(GridRows(CellDataOf(rd_file.cells))) = 3
  /\ rd_df.cols = << "x", "y" >>
  /\ rd_df.rows = << << "A", "B" >> >>

\* the dense rectangle rows 1..max_row by columns 1..max_col
Rectangle(cd) == [r \in 1..MaxRowOf(cd) |-> RowData(cd, r)]

\* C25: the grid is projected onto the dense rectangle rows 1..maxRow by
\* columns 1..maxCol, and a row is dropped if and only if every cell of it
\* is empty: a row holding a value of any type, the number 0 included, is
\* retained (seen with header_row = -1, where every retained row is a data
\* row).
C25_RowDroppedIffAllEmpty ==
  (unit_pc = "extracted" /\ rd_file.zip /\ header_row = -1) =>
    LET kept == SelectSeq(Rectangle(CellDataOf(rd_file.cells)),
                          LAMBDA row : \E c \in 1..Len(row) : row[c] \notin {"", None})
    IN kept # << >> => HoldsRows(rd_df, kept)

\* --------------------------------------- the cells matched and their values
\* The worksheet markup is the sequence of its <c> elements, the k-th of them
\* r="<k-th letter>1".  An element has a type attribute t ("" when it has
\* none), a <v> element with its text or none (Absent), and an <is><t>
\* element with its text or none (Absent), the <v> before the <is>.
CellElement(t, v, is) == [t |-> t, v |-> v, is |-> is]

\* the first element at or after k that has a <v>, 0 when there is none
NextV(cells, k) ==
  IF \E j \in k..Len(cells) : cells[j].v # Absent
  THEN CHOOSE j \in k..Len(cells) :
         cells[j].v # Absent /\ \A m \in k..(j - 1) : cells[m].v = Absent
  ELSE 0

\* the first element at or after k that has an <is><t>, 0 when there is none
NextIs(cells, k) ==
  IF \E j \in k..Len(cells) : cells[j].is # Absent
  THEN CHOOSE j \in k..Len(cells) :
         cells[j].is # Absent /\ \A m \in k..(j - 1) : cells[m].is = Absent
  ELSE 0

\* line 634, the group (?:t="([^"]*)")?: the [^>]* before it is greedy and
\* takes the whole of the tag up to its '>', so the group matches nothing
CellType(cell) == ""

\* line 634 matched from the element k on: the groups of <v> and of <is><t>
\* are optional and begin with a lazy '.*?' under re.DOTALL, so each takes
\* the first such element that follows, in this <c> or in a later one
CellMatch(cells, k) ==
  LET jv == NextV(cells, k)
      ji == NextIs(cells, IF jv = 0 THEN k ELSE jv)
  IN [at |-> k,
      cell_type |-> CellType(cells[k]),
      v_value |-> IF jv = 0 THEN "" ELSE cells[jv].v,
      is_value |-> IF ji = 0 THEN "" ELSE cells[ji].is,
      end |-> Max(k, Max(jv, ji))]

\* line 635: re.findall, the matches in order, none overlapping another
RECURSIVE FindAll(_, _)
FindAll(cells, k) ==
  IF k > Len(cells) THEN << >>
  ELSE << CellMatch(cells, k) >> \o FindAll(cells, CellMatch(cells, k).end + 1)

\* lines 622-623: the key str(i) of a token, 0 when the token is no key of n
\* strings
SharedIndex(token, n) ==
  CASE token = "0" /\ n >= 1 -> 1
    [] token = "1" /\ n >= 2 -> 2
    [] OTHER -> 0

\* line 654: shared_strings.get(v_value, v_value)
SharedGet(strings, token) ==
  IF SharedIndex(token, Len(strings)) = 0 THEN token
  ELSE strings[SharedIndex(token, Len(strings))]

\* lines 651-658: cell_value of a match
CellValue(m, strings) ==
  IF m.is_value # "" THEN Strip(m.is_value)
  ELSE IF m.cell_type = "s" /\ m.v_value # "" THEN SharedGet(strings, m.v_value)
  ELSE IF m.v_value # "" THEN Strip(m.v_value)
  ELSE ""

\* _clean_cell_value of a text of the model
CleanCellText(s) ==
  IF s = "" THEN None
  ELSE LET t == StripApos(Strip(s))
       IN IF t = "" THEN None
          ELSE IF ParseNumber(t) # "" THEN ParseNumber(t)
          ELSE t

\* lines 640-662: cell_data of the matches
CellDataOfMatches(cells, strings) ==
  LET ms == FindAll(cells, 1)
  IN [p \in {<< 1, ms[j].at >> : j \in 1..Len(ms)} |->
        CleanCellText(CellValue(CellMatch(cells, p[2]), strings))]

\* <c> elements: a number, a shared string of the table, a shared string
\* whose token is no key of the table, an inline string, an empty cell
CellPool ==
  { CellElement("", "2", Absent), CellElement("s", "0", Absent),
    CellElement("s", "2", Absent), CellElement("inlineStr", Absent, "B"),
    CellElement("", Absent, Absent) }

SharedStringTables == { << >>, << "Item Code" >>, << "Item Code", "A'" >> }

\* lines 632-662
Resolve ==
  /\ unit_pc = "resolve"
  /\ cell_data' = CellDataOfMatches(ws_cells, shared_strings)
  /\ unit_pc' = "resolved"
  /\ UNCHANGED decoderFrame

InitCells ==
  /\ WorkflowIdle
  /\ unit_pc = "resolve"
  /\ ReaderIdle
  /\ CleanerIdle
  /\ NormalizerIdle
  /\ cell_ref = NoRef
  /\ cell_data = << >>
  /\ ws_cells \in SeqsUpTo(CellPool, MaxCells)
  /\ shared_strings \in SharedStringTables

SpecCells == InitCells /\ [][Resolve]_vars

\* C24: the value stored for every cell matched is resolved from the cell in
\* this priority: its inline string if it has one; else, if its type
\* attribute is t="s", the entry of the shared-string table at the position
\* its value token gives, or the token when the table has no such position;
\* else its direct value as it stands.
C24_ValueResolvedByPriority ==
  unit_pc = "resolved" =>
    \A p \in DOMAIN cell_data :
      LET cell == ws_cells[p[2]]
      IN cell_data[p] =
           CleanCellText(
             IF cell.is # Absent THEN Strip(cell.is)
             ELSE IF cell.t = "s" /\ cell.v # Absent THEN SharedGet(shared_strings, cell.v)
             ELSE IF cell.v # Absent THEN Strip(cell.v)
             ELSE "")

\* ------------------------------------------------- the pass on any ledger
\* data rows a ledger may hold when the pass is invoked: rows sharing a pair,
\* a po_number stored as text and as a number, an empty row, a row whose key
\* cells are empty
PassPool ==
  { << "A", "P", "#1" >>, << "A", "P", "#2" >>, << "B", "01", "#1" >>,
    << "B", "#1", "#1" >>, << >>, << "", "", "#2" >> }

PassLedgers == {Stored(<< StdCols >> \o rs) : rs \in SeqsUpTo(PassPool, MaxPassRows)}

InitPass ==
  /\ ledger \in PassLedgers
  /\ ledger0 = ledger
  /\ pc = "recon_get"
  /\ nfiles = 0
  /\ i = 0
  /\ existing_keys = {}
  /\ sheet_has_headers = FALSE
  /\ is_first_append = TRUE
  /\ processed_count = 0
  /\ recon_values = << >>
  /\ result = NoResult
  /\ ledgerPre = ledger
  /\ fileLog = << >>
  /\ reconLog = << "running" >>
  /\ firstRaw = << >>
  /\ firstClean = << >>
  /\ dupSeen = FALSE
  /\ colsSeen = {}
  /\ faulty = FALSE
  /\ merge_df = EmptyDF
  /\ merge_keys = {}
  /\ merge_unique = EmptyDF
  /\ track = FALSE
  /\ loop_df = EmptyDF
  /\ ext_rows = << >>
  /\ UnitsIdle

NextPass == ReconGet \/ ReconClear \/ ReconUpdate

SpecPass == InitPass /\ [][NextPass]_vars

PassDone == pc = "return" /\ reconLog = << "ok" >>

\* the data rows of a grid that are the first to carry their pair, pairs
\* compared as a read of the sheet returns them
FirstOfPair(grid) ==
  {r \in 1..DataRowCount(grid) :
     \A q \in 1..(r - 1) : ReadKey(grid, q) # ReadKey(grid, r)}

\* a cell as the pass writes it back
Rewritten(v) == ReconProcessValue(SheetRender(v))

\* the row after of the grid post is the row before of the grid pre, cell by
\* cell under the header labels of pre, as the pass writes it back
SameLedgerRow(post, after, pre, before) ==
  \A c \in 1..Len(pre[1]) :
    LET c2 == IndexOf(post[1], pre[1][c])
    IN (IF c2 = 0 THEN "" ELSE CellAt(after, c2)) = Rewritten(CellAt(before, c))

\* the data rows of the ledger are the rows R of ledgerPre, each once
KeptRowsAre(R) ==
  /\ DataRowCount(ledger) = Cardinality(R)
  /\ \A r \in R : \E k \in 1..DataRowCount(ledger) :
       SameLedgerRow(ledger, ledger[k + 1], ledgerPre, ledgerPre[r + 1])
  /\ \A k \in 1..DataRowCount(ledger) : \E r \in R :
       SameLedgerRow(ledger, ledger[k + 1], ledgerPre, ledgerPre[r + 1])

\* C26 as stated: when the header holds both key columns, the pass keeps,
\* for each pair occurring in the ledger, exactly the first row carrying it
\* and removes every later row with the same pair.
C26_FirstRowPerPairKept ==
  (PassDone /\ LedgerHasKeyCols(ledgerPre)) => KeptRowsAre(FirstOfPair(ledgerPre))

\* every cell of data row r of the grid is empty
BlankRow(grid, r) == \A c \in 1..Len(grid[r + 1]) : grid[r + 1][c] = ""

\* C26: when the header holds both key columns, the pass keeps, for each pair
\* occurring in the ledger, the first row carrying it, rewritten, unless that
\* row is entirely blank, and removes every other row: every later row with
\* the same pair, and the first row of a pair when it is entirely blank.
C26_FirstNonBlankRowPerPairKept ==
  (PassDone /\ LedgerHasKeyCols(ledgerPre)) =>
    KeptRowsAre({r \in FirstOfPair(ledgerPre) : ~BlankRow(ledgerPre, r)})

\* of three data rows, two carrying the pair (A, P), the first of the two and
\* the third are kept
C26_Witness ==
  /\ PassDone
  /\ DataRowCount(ledgerPre) = 3
  /\ ReadKey(ledgerPre, 1) = << "A", "P" >>
  /\ ReadKey(ledgerPre, 2) = << "A", "P" >>
  /\ ledgerPre[2] # ledgerPre[3]
  /\ DataRowCount(ledger) = 2
  /\ \E k \in 1..2 : ledger[k + 1] = ledgerPre[2]

\* ------------------------------------------------ the header row of the ledger
\* no row below the first row of the grid is a copy of it
NoHeaderCopy(grid) == \A r \in 2..Len(grid) : grid[r] # grid[1]

\* C27: in one run the header row is written to the ledger at most once, and
\* only if the ledger held no header row when the run began; so, from a
\* ledger without a copy of its header, the ledger at no point of the run,
\* and not after it, holds a second copy of the header row as a data row.
C27_HeaderWrittenOnce ==
  (pc # "start" /\ NoHeaderCopy(ledger0)) => NoHeaderCopy(ledger)

\* ------------------------------------------- the columns of the rows appended
\* row r of a grid, the empty row beyond its last row
GridRow(grid, r) == IF r <= Len(grid) THEN grid[r] ELSE << >>

\* C28: every row appended to a ledger that already has a header stands with
\* its Item Code value and its po_number value in the ledger columns whose
\* header cells are Item Code and po_number, whatever the column order of
\* the file.
C28_KeysUnderTheirHeaders ==
  [][(track /\ FileStep /\ fileLog'[Len(fileLog')] = "appended" /\ LedgerHasKeyCols(ledger)) =>
       LET df_unique == UniqueRows(loop_df', existing_keys)
       IN \A k \in 1..Len(df_unique.rows) :
            LET row == GridRow(ledger', Len(ledger) + k)
                key == KeyOf(df_unique.cols, df_unique.rows[k])
            IN /\ CellAt(row, IndexOf(ledger[1], ItemCode)) = AppendProcessValue(key[1])
               /\ CellAt(row, IndexOf(ledger[1], PoNumber)) = AppendProcessValue(key[2])]_vars

\* --------------------------------------------------------- a failed append
\* the step went through a file whose append failed
AppendFailed == Len(fileLog') = Len(fileLog) + 1 /\ fileLog'[Len(fileLog')] = "error_append"

\* C29: when the append of a file's rows fails, existing_keys,
\* processed_count, is_first_append and sheet_has_headers are as before the
\* file, so the rows that were to be appended are still rows a later file
\* may append; keys are folded into existing_keys only by a step that
\* appended.
C29_FailedAppendChangesNothing ==
  [][/\ (track /\ AppendFailed) =>
          /\ existing_keys' = existing_keys
          /\ processed_count' = processed_count
          /\ is_first_append' = is_first_append
          /\ sheet_has_headers' = sheet_has_headers
          /\ ledger' = ledger
          /\ ~IsEmptyDF(UniqueRows(loop_df', existing_keys'))
          /\ UniqueRows(loop_df', existing_keys') = UniqueRows(loop_df', existing_keys)
     /\ (pc = "loop" /\ existing_keys' # existing_keys) =>
          /\ FileStep
          /\ fileLog'[Len(fileLog')] = "appended"
          /\ ledger' # ledger]_vars

\* the append of the first file failed with nothing folded, and the file after
\* it was appended and its one key folded
C29_Witness ==
  /\ pc = "loop"
  /\ track
  /\ fileLog = << "error_append", "appended" >>
  /\ processed_count = 1
  /\ existing_keys = {<< "A", "P" >>}
  /\ DataRowCount(ledger) = 1

\* ------------------------------------------------------- no key is lost
\* the pair of data row r of the grid as a read returns it once the pass has
\* written it back
RewrittenKey(grid, r) ==
  << SheetRender(Rewritten(StoredKey(grid, r)[1])),
     SheetRender(Rewritten(StoredKey(grid, r)[2])) >>

\* C30: after a successful pass, every pair with both components non-blank
\* that a data row of the ledger carried before the pass is carried by
\* exactly one data row of the ledger, a pair compared as the pass writes it
\* back.
C30_NoKeyLost ==
  (PassDone /\ LedgerHasKeyCols(ledgerPre)) =>
    \A r \in 1..DataRowCount(ledgerPre) :
      (ReadKey(ledgerPre, r)[1] # "" /\ ReadKey(ledgerPre, r)[2] # "") =>
        /\ LedgerHasKeyCols(ledger)
        /\ Cardinality({k \in 1..DataRowCount(ledger) :
                          ReadKey(ledger, k) = RewrittenKey(ledgerPre, r)}) = 1
====
